---- MODULE Spec2Model ----
(***************************************************************************)
(* A model of the StockIT ETL pipeline (src/Stock_It/etl_pipeline.py): the *)
(* relational store behind the SQLAlchemy session, the three load          *)
(* operations, the sentiment and relevance enrichment, and the             *)
(* orchestration of run_stock_etl / run_news_etl / run_full_etl.           *)
(*                                                                         *)
(* Text is a sequence of one-character strings, so that str.lower() and    *)
(* the `in` substring test are computed and not assumed.  An optional      *)
(* value (Python None or a value) is the empty tuple or a one-tuple.       *)
(***************************************************************************)
EXTENDS Integers, Sequences, FiniteSets, TLC

VARIABLES
    db,        \* the committed rows of the six tables
    pending,   \* rows added to the session and not yet committed
    last,      \* the last call on the pipeline: operation, inputs, return value
    run,       \* the position of run_full_etl and the calls it has made
    tracker    \* the state of run_continuous_tracking

storeVars == <<db, pending>>

--------------------------------------------------------------------------
(* Bounds of the model *)

\* the longest batch (list of transformed records) handed to a load call
MaxBatch == 2
\* the most rows a price history holds
MaxRows == 2
\* the cycles run_continuous_tracking starts
MaxCycles == 2

(* Program constants *)
NameMax == 255
SectorMax == 100
ExchangeMax == 50
\* credibility_score 0.50 and relevance_score 0.75, in hundredths
DefaultCredibility == 50
DefaultRelevance == 75
TitleMax == 500

--------------------------------------------------------------------------
(* Values *)

None == <<>>
Some(x) == <<x>>

Min(a, b) == IF a < b THEN a ELSE b

\* s[:n]
Trunc(s, n) == SubSeq(s, 1, Min(n, Len(s)))

Range(f) == {f[i] : i \in DOMAIN f}

\* every list over S of length <= n
SeqsUpTo(S, n) == UNION {[1..k -> S] : k \in 0..n}

\* str.lower() on one character of the model's alphabet
LowerChar(c) ==
    CASE c = "A" -> "a"
      [] c = "B" -> "b"
      [] c = "C" -> "c"
      [] c = "M" -> "m"
      [] c = "N" -> "n"
      [] c = "S" -> "s"
      [] c = "X" -> "x"
      [] OTHER -> c

\* str.lower()
Lower(s) == [i \in DOMAIN s |-> LowerChar(s[i])]

\* Python's `a in b` on strings
IsSubstring(a, b) ==
    \E i \in 0..(Len(b) - Len(a)) : SubSeq(b, i + 1, i + Len(a)) = a

\* ticker symbols
AB == <<"A", "B">>
MS == <<"M", "S">>

--------------------------------------------------------------------------
(* The store: six tables, each a set of rows.  A row carries the identity *)
(* the database generates for it, so two rows with one natural key are    *)
(* two rows.                                                              *)

EmptyTables ==
    [stocks |-> {}, prices |-> {}, sources |-> {}, news |-> {},
     sents |-> {}, rels |-> {}]

\* the next autoincrement identity of a table (rows are never deleted)
NextId(rows) == Cardinality(rows) + 1

\* Session.add followed by the flush that precedes the next query: the row
\* is visible to every later query of the same transaction
session_add(s, tbl, row) == [s EXCEPT ![tbl] = @ \cup {row}]

\* Query.first(): a row of the result, or None
first(rows) == IF rows = {} THEN None ELSE Some(CHOOSE r \in rows : TRUE)

\* the rows the session sees when a call starts
session_begin == [t \in DOMAIN db |-> db[t] \cup pending[t]]

--------------------------------------------------------------------------
(* load_stock_data *)

Stock(id, record) ==
    [stock_id |-> id, symbol |-> record.symbol, company_name |-> record.symbol,
     sector |-> None, exchange |-> None, market_cap |-> None, is_active |-> TRUE]

StockPrice(id, stock, record) ==
    [price_id |-> id, stock_id |-> stock.stock_id, date |-> record.date,
     open_price |-> record.open_price, high_price |-> record.high_price,
     low_price |-> record.low_price, close_price |-> record.close_price,
     adjusted_close |-> record.adjusted_close, volume |-> record.volume]

\* a load that creates a Stock for every record
create_stock_unchecked(s, record) ==
    LET stock == Stock(NextId(s.stocks), record)
    IN  [s |-> session_add(s, "stocks", stock), stock |-> stock]

\* a load that writes the placeholder name to the Stock it finds
get_or_create_stock_resetting(s, record) ==
    LET found == first({st \in s.stocks : st.symbol = record.symbol})
    IN  IF found = None
        THEN LET stock == Stock(NextId(s.stocks), record)
             IN  [s |-> session_add(s, "stocks", stock), stock |-> stock]
        ELSE LET stock == [found[1] EXCEPT !.company_name = record.symbol]
             IN  [s |-> [s EXCEPT !.stocks = (@ \ {found[1]}) \cup {stock}],
                  stock |-> stock]

\* the get-or-create of the Stock row of one record
get_or_create_stock(s, record) ==
    LET found == first({st \in s.stocks : st.symbol = record.symbol})
    IN  IF found = None
        THEN LET stock == Stock(NextId(s.stocks), record)
             IN  [s |-> session_add(s, "stocks", stock), stock |-> stock]
        ELSE [s |-> s, stock |-> found[1]]

\* a load that overwrites the stored values of an existing price row
insert_price_overwriting(s, stock, record) ==
    LET existing == {p \in s.prices :
                        p.stock_id = stock.stock_id /\ p.date = record.date}
    IN  IF existing = {}
        THEN session_add(s, "prices", StockPrice(NextId(s.prices), stock, record))
        ELSE [s EXCEPT !.prices = (@ \ existing) \cup
                 {StockPrice(p.price_id, stock, record) : p \in existing}]

\* a load that inserts without the existence check
insert_price_unchecked(s, stock, record) ==
    session_add(s, "prices", StockPrice(NextId(s.prices), stock, record))

\* the existence check and insert of the price row of one record
insert_price_if_absent(s, stock, record) ==
    LET existing_price ==
            first({p \in s.prices :
                      p.stock_id = stock.stock_id /\ p.date = record.date})
    IN  IF existing_price = None
        THEN session_add(s, "prices", StockPrice(NextId(s.prices), stock, record))
        ELSE s

\* a loop body that keeps only the newest price row of a stock
load_stock_record_replacing(s, record) ==
    LET g == get_or_create_stock(s, record)
        kept == [g.s EXCEPT !.prices =
                    {p \in @ : p.stock_id # g.stock.stock_id
                                  \/ p.date >= record.date}]
    IN  insert_price_if_absent(kept, g.stock, record)

\* the body of the for loop, for one record
load_stock_record(s, record) ==
    LET g == get_or_create_stock(s, record)
    IN  insert_price_if_absent(g.s, g.stock, record)

\* the for loop from record i on; failAt = i is a store error raised while
\* record i is processed, failAt = Len + 1 one raised by the commit
RECURSIVE load_stock_loop(_, _, _, _)
load_stock_loop(s, data, i, failAt) ==
    IF i = failAt THEN [raised |-> TRUE, s |-> s]
    ELSE IF i > Len(data) THEN [raised |-> FALSE, s |-> s]
    ELSE load_stock_loop(load_stock_record(s, data[i]), data, i + 1, failAt)

\* a load whose except branch keeps what the session holds
load_stock_data_keeping(store, s0, data, failAt) ==
    LET r == load_stock_loop(s0, data, 1, failAt)
    IN  [ret |-> ~r.raised, db |-> r.s]

\* a load that reports success only when it has stored a new PriceRecord
load_stock_data_new_rows_only(store, s0, data, failAt) ==
    LET r == load_stock_loop(s0, data, 1, failAt)
    IN  IF r.raised
        THEN [ret |-> FALSE, db |-> store]
        ELSE [ret |-> r.s.prices # s0.prices, db |-> r.s]

\* load_stock_data(transformed_data): the return value and the committed
\* store after the call (failAt = 0: the store raises nothing)
load_stock_data(store, s0, data, failAt) ==
    LET r == load_stock_loop(s0, data, 1, failAt)
    IN  IF r.raised
        THEN [ret |-> FALSE, db |-> store]   \* session.rollback()
        ELSE [ret |-> TRUE, db |-> r.s]      \* session.commit()

--------------------------------------------------------------------------
(* load_company_data *)

Digits == {"0", "1", "2", "3", "4", "5", "6", "7", "8", "9"}

DigitVal(c) ==
    CASE c = "0" -> 0 [] c = "1" -> 1 [] c = "2" -> 2 [] c = "3" -> 3
      [] c = "4" -> 4 [] c = "5" -> 5 [] c = "6" -> 6 [] c = "7" -> 7
      [] c = "8" -> 8 [] c = "9" -> 9

\* the text "None": what str(None) gives for a missing marketCap
NoneText == <<"N", "o", "n", "e">>

\* int(text) succeeds: an optional sign, then one or more decimal digits
IsIntText(t) ==
    LET body == IF Len(t) > 0 /\ t[1] \in {"-", "+"} THEN Tail(t) ELSE t
    IN  Len(body) > 0 /\ \A i \in DOMAIN body : body[i] \in Digits

RECURSIVE DigitsValue(_)
DigitsValue(t) ==
    IF t = <<>> THEN 0
    ELSE 10 * DigitsValue(SubSeq(t, 1, Len(t) - 1)) + DigitVal(t[Len(t)])

\* int(text), for a text int() accepts
IntOfText(t) ==
    IF t[1] = "-" THEN 0 - DigitsValue(Tail(t))
    ELSE IF t[1] = "+" THEN DigitsValue(Tail(t))
    ELSE DigitsValue(t)

\* a parse that stores 0 for a text int() rejects
parse_market_cap_zero(market_cap_str) ==
    IF market_cap_str = NoneText THEN None
    ELSE IF IsIntText(market_cap_str) THEN Some(IntOfText(market_cap_str))
    ELSE Some(0)

\* the market-cap parse: None for the text "None" and for a text int()
\* rejects (ValueError), the integer otherwise
parse_market_cap(market_cap_str) ==
    IF market_cap_str = NoneText THEN None
    ELSE IF IsIntText(market_cap_str) THEN Some(IntOfText(market_cap_str))
    ELSE None

\* slicing None raises TypeError: a payload field that is None
info_raises(company_info) ==
    \/ company_info.Name = None
    \/ company_info.Sector = None
    \/ company_info.Exchange = None

\* the Stock row after the four assignments
updated_stock(stock, company_info) ==
    [stock EXCEPT
        !.company_name = Trunc(company_info.Name[1], NameMax),
        !.sector = Some(Trunc(company_info.Sector[1], SectorMax)),
        !.exchange = Some(Trunc(company_info.Exchange[1], ExchangeMax)),
        !.market_cap = parse_market_cap(company_info.MarketCapitalization)]

\* a load that creates the Stock row it does not find
load_company_data_creating(store, s0, company_info, symbol, fail) ==
    IF fail \/ info_raises(company_info)
    THEN [ret |-> FALSE, db |-> store, open |-> FALSE]
    ELSE
    LET found == first({st \in s0.stocks : st.symbol = symbol})
        stock == IF found = None
                 THEN Stock(NextId(s0.stocks), [symbol |-> symbol])
                 ELSE found[1]
    IN  [ret |-> TRUE,
         db |-> [s0 EXCEPT !.stocks =
                    (@ \ {stock}) \cup {updated_stock(stock, company_info)}],
         open |-> FALSE]

\* load_company_data(company_info, symbol): fail is a store error raised by
\* the lookup or by the commit
load_company_data(store, s0, company_info, symbol, fail) ==
    IF fail THEN [ret |-> FALSE, db |-> store, open |-> FALSE]
    ELSE
    LET found == first({st \in s0.stocks : st.symbol = symbol})
    IN  IF found = None
        THEN \* neither commit nor rollback: the transaction stays open
             [ret |-> FALSE, db |-> store, open |-> TRUE]
        ELSE IF info_raises(company_info)
        THEN [ret |-> FALSE, db |-> store, open |-> FALSE]
        ELSE [ret |-> TRUE,
              db |-> [s0 EXCEPT !.stocks =
                         (@ \ {found[1]}) \cup {updated_stock(found[1], company_info)}],
              open |-> FALSE]

--------------------------------------------------------------------------
(* analyze_and_store_sentiment *)

Models == {"VADER", "TextBlob"}

SentimentAnalysis(id, news_record, model, result) ==
    [sentiment_id |-> id, news_id |-> news_record.news_id,
     analysis_model |-> model, sentiment_label |-> result]

\* analyze_and_store_sentiment(news_record): scorer[m] is what the sentiment
\* analyzer does for model m on this text, "raise" or the label it returns.
\* One try block holds both passes: the first raise ends the function.
analyze_and_store_sentiment(s, news_record, scorer) ==
    IF scorer["VADER"] = "raise" THEN s
    ELSE
    LET s1 == session_add(s, "sents",
                  SentimentAnalysis(NextId(s.sents), news_record, "VADER",
                                    scorer["VADER"]))
    IN  IF scorer["TextBlob"] = "raise" THEN s1
        ELSE session_add(s1, "sents",
                 SentimentAnalysis(NextId(s1.sents), news_record, "TextBlob",
                                   scorer["TextBlob"]))

--------------------------------------------------------------------------
(* link_news_to_stocks *)

\* f"{title} {content or ''}".lower()
text_to_search(news_record) ==
    Lower(news_record.title \o <<" ">> \o news_record.content)

\* a test that compares without lowering the symbol and the name
is_mentioned_case_sensitive(stock, news_record) ==
    \/ IsSubstring(stock.symbol, text_to_search(news_record))
    \/ IsSubstring(stock.company_name, text_to_search(news_record))

\* the test of the if inside the loop over the active stocks
is_mentioned(stock, news_record) ==
    \/ IsSubstring(Lower(stock.symbol), text_to_search(news_record))
    \/ IsSubstring(Lower(stock.company_name), text_to_search(news_record))

StockNewsRelation(id, stock, news_record) ==
    [relation_id |-> id, stock_id |-> stock.stock_id,
     news_id |-> news_record.news_id, relevance_score |-> DefaultRelevance]

\* query(Stock).filter_by(is_active=True).all()
active_stocks(s) == {st \in s.stocks : st.is_active}

\* the loop body for one active stock
link_one_stock(s, stock, news_record) ==
    IF is_mentioned(stock, news_record)
    THEN LET existing_relation ==
                 first({r \in s.rels : r.stock_id = stock.stock_id
                                        /\ r.news_id = news_record.news_id})
         IN  IF existing_relation = None
             THEN session_add(s, "rels",
                      StockNewsRelation(NextId(s.rels), stock, news_record))
             ELSE s
    ELSE s

\* the loop over the stocks still to visit, in identity order
RECURSIVE link_loop(_, _, _)
link_loop(s, todo, news_record) ==
    IF todo = {} THEN s
    ELSE LET stock == CHOOSE st \in todo :
                          \A o \in todo : st.stock_id <= o.stock_id
         IN  link_loop(link_one_stock(s, stock, news_record),
                       todo \ {stock}, news_record)

\* link_news_to_stocks(news_record): the session after the call (no commit)
link_news_to_stocks(s, news_record) ==
    link_loop(s, active_stocks(s), news_record)

--------------------------------------------------------------------------
(* load_news_data *)

\* a url that is None (or empty) is falsy
NoUrl == "None"

NewsSource(id, record) ==
    [source_id |-> id, source_name |-> record.source_name,
     credibility_score |-> DefaultCredibility, is_active |-> TRUE]

FinancialNews(id, source, record) ==
    [news_id |-> id, source_id |-> source.source_id, title |-> record.title,
     content |-> record.content, url |-> record.url]

\* the get-or-create of the NewsSource row of one record
get_or_create_source(s, record) ==
    LET found == first({src \in s.sources : src.source_name = record.source_name})
    IN  IF found = None
        THEN LET source == NewsSource(NextId(s.sources), record)
             IN  [s |-> session_add(s, "sources", source), source |-> source]
        ELSE [s |-> s, source |-> found[1]]

\* a load that takes the title of the record when the url is already stored
insert_news_overwriting(s, source, record, scorer) ==
    LET existing == {n \in s.news : n.url = record.url}
    IN  IF existing = {} /\ record.url # NoUrl
        THEN LET news_record == FinancialNews(NextId(s.news), source, record)
             IN  analyze_and_store_sentiment(
                     session_add(s, "news", news_record), news_record, scorer)
        ELSE [s EXCEPT !.news = (@ \ existing) \cup
                 {[n EXCEPT !.title = record.title] : n \in existing}]

\* a load that inserts a record whatever its url
insert_news_without_url_test(s, source, record, scorer) ==
    LET existing_news == first({n \in s.news : n.url = record.url})
    IN  IF existing_news = None
        THEN LET news_record == FinancialNews(NextId(s.news), source, record)
             IN  analyze_and_store_sentiment(
                     session_add(s, "news", news_record), news_record, scorer)
        ELSE s

\* a load that gives up the article whose scoring fails
insert_news_dropping_unscored(s, source, record, scorer) ==
    LET existing_news == first({n \in s.news : n.url = record.url})
    IN  IF existing_news = None /\ record.url # NoUrl
                /\ \A m \in Models : scorer[m] # "raise"
        THEN LET news_record == FinancialNews(NextId(s.news), source, record)
             IN  analyze_and_store_sentiment(
                     session_add(s, "news", news_record), news_record, scorer)
        ELSE s

\* a load that scores again the article it finds stored
insert_news_rescoring(s, source, record, scorer) ==
    LET existing_news == first({n \in s.news : n.url = record.url})
    IN  IF existing_news = None /\ record.url # NoUrl
        THEN LET news_record == FinancialNews(NextId(s.news), source, record)
             IN  analyze_and_store_sentiment(
                     session_add(s, "news", news_record), news_record, scorer)
        ELSE IF existing_news # None
        THEN analyze_and_store_sentiment(s, existing_news[1], scorer)
        ELSE s

\* the existence check, the insert and the enrichment of one record
insert_news_if_absent(s, source, record, scorer) ==
    LET existing_news == first({n \in s.news : n.url = record.url})
    IN  IF existing_news = None /\ record.url # NoUrl
        THEN LET news_record == FinancialNews(NextId(s.news), source, record)
             IN  analyze_and_store_sentiment(
                     session_add(s, "news", news_record), news_record, scorer)
        ELSE s

\* a loop body that looks at the url before it looks for the NewsSource
load_news_record_url_first(s, record, scorer) ==
    IF record.url = NoUrl \/ \E n \in s.news : n.url = record.url
    THEN s
    ELSE LET g == get_or_create_source(s, record)
         IN  insert_news_if_absent(g.s, g.source, record, scorer)

\* the body of the for loop, for one record
load_news_record(s, record, scorer) ==
    LET g == get_or_create_source(s, record)
    IN  insert_news_if_absent(g.s, g.source, record, scorer)

\* the for loop from record i on (failAt as in load_stock_loop)
RECURSIVE load_news_loop(_, _, _, _, _)
load_news_loop(s, data, i, scorer, failAt) ==
    IF i = failAt THEN [raised |-> TRUE, s |-> s]
    ELSE IF i > Len(data) THEN [raised |-> FALSE, s |-> s]
    ELSE load_news_loop(load_news_record(s, data[i], scorer),
                        data, i + 1, scorer, failAt)

\* a load whose except branch keeps what the session holds
load_news_data_keeping(store, s0, data, scorer, failAt) ==
    LET r == load_news_loop(s0, data, 1, scorer, failAt)
    IN  [ret |-> ~r.raised, db |-> r.s]

\* a load whose rollback leaves the SentimentRecords it had added
load_news_data_keeping_sents(store, s0, data, scorer, failAt) ==
    LET r == load_news_loop(s0, data, 1, scorer, failAt)
    IN  IF r.raised
        THEN [ret |-> FALSE, db |-> [store EXCEPT !.sents = r.s.sents]]
        ELSE [ret |-> TRUE, db |-> r.s]

\* load_news_data(transformed_data)
load_news_data(store, s0, data, scorer, failAt) ==
    LET r == load_news_loop(s0, data, 1, scorer, failAt)
    IN  IF r.raised
        THEN [ret |-> FALSE, db |-> store]   \* session.rollback()
        ELSE [ret |-> TRUE, db |-> r.s]      \* session.commit()

--------------------------------------------------------------------------
(* YahooFinanceDataFetcher.get_daily_stock_data and extract_stock_data *)

DigitText(n) ==
    CASE n = 0 -> "0" [] n = 1 -> "1" [] n = 2 -> "2" [] n = 3 -> "3"
      [] n = 4 -> "4" [] n = 5 -> "5" [] n = 6 -> "6" [] n = 7 -> "7"
      [] n = 8 -> "8" [] n = 9 -> "9"

\* str(n) and strftime for a natural number n
RECURSIVE TextOfNat(_)
TextOfNat(n) ==
    IF n < 10 THEN <<DigitText(n)>>
    ELSE TextOfNat(n \div 10) \o <<DigitText(n % 10)>>

\* what yfinance's Ticker.history gives: it raises, or a frame of rows (maybe
\* none); a row's Volume is None when it is NaN
YfRow(d, v, vol) ==
    [Date |-> d, Open |-> v, High |-> v + 2, Low |-> v - 1, Close |-> v + 1,
     Volume |-> vol]

\* the entry of the time series dict for one row
time_series_entry(row) ==
    [open |-> TextOfNat(row.Open), high |-> TextOfNat(row.High),
     low |-> TextOfNat(row.Low), close |-> TextOfNat(row.Close),
     volume |-> TextOfNat(row.Volume[1])]

\* the dict built by the loop: a later row replaces an earlier one with the
\* same date text
time_series(rows) ==
    [date_str \in {TextOfNat(rows[i].Date) : i \in DOMAIN rows} |->
        LET i == CHOOSE k \in DOMAIN rows :
                    /\ TextOfNat(rows[k].Date) = date_str
                    /\ \A j \in DOMAIN rows :
                          TextOfNat(rows[j].Date) = date_str => j <= k
        IN  time_series_entry(rows[i])]

\* a fetcher that leaves out the rows whose volume is NaN
get_daily_stock_data_skipping(history) ==
    IF history.raises THEN None
    ELSE IF history.rows = <<>> THEN None
    ELSE Some(time_series(SelectSeq(history.rows,
                                    LAMBDA row : row.Volume # None)))

\* get_daily_stock_data(symbol): None, or the time series; int(NaN) raises
\* inside the try
get_daily_stock_data(history) ==
    IF history.raises THEN None
    ELSE IF history.rows = <<>> THEN None
    ELSE IF \E i \in DOMAIN history.rows : history.rows[i].Volume = None
    THEN None
    ELSE Some(time_series(history.rows))

\* float() / int() accept the text
entry_parses(values) ==
    /\ IsIntText(values.open) /\ IsIntText(values.high)
    /\ IsIntText(values.low) /\ IsIntText(values.close)
    /\ IsIntText(values.volume)

\* one element of df_data
frame_row(date_str, values, symbol) ==
    [date |-> IntOfText(date_str), open |-> IntOfText(values.open),
     high |-> IntOfText(values.high), low |-> IntOfText(values.low),
     close |-> IntOfText(values.close), volume |-> Some(IntOfText(values.volume)),
     symbol |-> symbol]

\* a frame cut to its earliest row
sort_values_head(rows) ==
    IF rows = {} THEN <<>>
    ELSE <<CHOOSE x \in rows : \A y \in rows : x.date <= y.date>>

\* DataFrame.sort_values('date') of rows with distinct dates
RECURSIVE sort_values(_)
sort_values(rows) ==
    IF rows = {} THEN <<>>
    ELSE LET r == CHOOSE x \in rows : \A y \in rows : x.date <= y.date
         IN  <<r>> \o sort_values(rows \ {r})

\* extract_stock_data(symbol): None, or the frame sorted by date
extract_stock_data(symbol, history) ==
    LET data == get_daily_stock_data(history)
    IN  IF data = None THEN None
        ELSE LET series == data[1]
             IN  IF \E ds \in DOMAIN series :
                        ~IsIntText(ds) \/ ~entry_parses(series[ds])
                 THEN None      \* the except branch
                 ELSE LET df == sort_values(
                                   {frame_row(ds, series[ds], symbol) :
                                       ds \in DOMAIN series})
                      IN  IF df # <<>> THEN Some(df) ELSE None

--------------------------------------------------------------------------
(* transform_stock_data *)

\* int(row['volume']) raises for a missing volume
row_coerces(row) == row.volume # None

transformed_record(row, symbol) ==
    [symbol |-> symbol, date |-> row.date, open_price |-> row.open,
     high_price |-> row.high, low_price |-> row.low, close_price |-> row.close,
     adjusted_close |-> row.close, volume |-> row.volume[1]]

\* a transform that leaves out the rows it cannot coerce
transform_stock_data_skipping(data, symbol) ==
    LET coerced == SelectSeq(data, row_coerces)
    IN  [i \in DOMAIN coerced |-> transformed_record(coerced[i], symbol)]

\* transform_stock_data(data, symbol): [] when a row raises
transform_stock_data(data, symbol) ==
    IF \E i \in DOMAIN data : ~row_coerces(data[i]) THEN <<>>
    ELSE [i \in DOMAIN data |-> transformed_record(data[i], symbol)]

--------------------------------------------------------------------------
(* get_company_overview and extract_company_info *)

\* a key the yfinance info dict does not hold
Absent == <<"absent", "absent">>

NAText == <<"N", "/", "A">>

\* dict.get(key, default)
dict_get(value, default) == IF value = Absent THEN default ELSE value

\* str(info.get('marketCap', 0))
market_cap_text(value) ==
    IF value = Absent THEN TextOfNat(0)
    ELSE IF value = None THEN NoneText
    ELSE TextOfNat(value[1])

\* get_company_overview(symbol): None, or the overview dict
get_company_overview(ticker) ==
    IF ticker.raises \/ ticker.empty THEN None
    ELSE Some([Name |-> dict_get(ticker.longName, Some(NAText)),
               Sector |-> dict_get(ticker.sector, Some(NAText)),
               Exchange |-> dict_get(ticker.exchange, Some(NAText)),
               MarketCapitalization |-> market_cap_text(ticker.marketCap)])

\* extract_company_info(symbol)
extract_company_info(ticker) == get_company_overview(ticker)

--------------------------------------------------------------------------
(* run_stock_etl *)

\* the price half after extract_stock_data returned stock_data: transform,
\* load.  stages lists the stages run.
price_step_of(store, s0, symbol, stock_data, failAt) ==
    IF stock_data = None
    THEN [success |-> FALSE, db |-> store, closed |-> FALSE,
          stages |-> <<"extract_stock_data">>]
    ELSE
    LET transformed == transform_stock_data(stock_data[1], symbol)
    IN  IF transformed = <<>>
        THEN [success |-> FALSE, db |-> store, closed |-> FALSE,
              stages |-> <<"extract_stock_data", "transform_stock_data">>]
        ELSE LET r == load_stock_data(store, s0, transformed, failAt)
             IN  [success |-> r.ret, db |-> r.db, closed |-> TRUE,
                  stages |-> <<"extract_stock_data", "transform_stock_data",
                               "load_stock_data">>]

\* the price half: extract, transform, load
price_step(store, s0, symbol, history, failAt) ==
    price_step_of(store, s0, symbol, extract_stock_data(symbol, history), failAt)

\* the fundamentals half: extract, load
company_step(store, s0, symbol, ticker, fail) ==
    LET company_info == extract_company_info(ticker)
    IN  IF company_info = None
        THEN [loaded |-> FALSE, db |-> store, closed |-> FALSE,
              stages |-> <<"extract_company_info">>]
        ELSE LET r == load_company_data(store, s0, company_info[1], symbol, fail)
             IN  [loaded |-> r.ret, db |-> r.db, closed |-> ~r.open,
                  stages |-> <<"extract_company_info", "load_company_data">>]

\* a return value that needs both halves
etl_return_both(stock_success, company_success) ==
    stock_success /\ company_success

\* the value run_stock_etl returns
etl_return(stock_success, company_success) == stock_success

\* run_stock_etl after the price half returned p: the fundamentals half and
\* the return value
run_stock_etl_company(store, pend, symbol, ticker, fail, p) ==
    LET pend1 == IF p.closed THEN EmptyTables ELSE pend
        s1 == [t \in DOMAIN store |-> p.db[t] \cup pend1[t]]
        c == company_step(p.db, s1, symbol, ticker, fail)
    IN  [ret |-> etl_return(p.success, c.loaded),
         stock_success |-> p.success, company_success |-> c.loaded,
         db |-> c.db,
         pending |-> IF c.closed THEN EmptyTables ELSE pend1,
         stages |-> p.stages \o c.stages]

\* run_stock_etl(symbol): the return value and the store after the call.
\* Every stage catches what it raises, so the outer except is never entered.
run_stock_etl(store, pend, symbol, history, ticker, failAt, fail) ==
    run_stock_etl_company(
        store, pend, symbol, ticker, fail,
        price_step(store, [t \in DOMAIN store |-> store[t] \cup pend[t]],
                   symbol, history, failAt))

--------------------------------------------------------------------------
(* extract_news_data and transform_news_data *)

\* extract_news_data(query): the news fetcher raises, returns no data, or
\* returns a frame; an empty frame is no data
extract_news_data(provider) ==
    IF provider.raises THEN None
    ELSE IF provider.frame = None THEN None
    ELSE IF provider.frame[1] = <<>> THEN None
    ELSE provider.frame

UnknownSource == "Unknown"

\* one transformed record; a url of the model is shorter than the 1000
\* characters it is cut to
transformed_news_record(row) ==
    [title |-> IF row.title = None THEN <<>> ELSE Trunc(row.title[1], TitleMax),
     content |-> IF row.content = None THEN <<>> ELSE row.content[1],
     url |-> IF row.url = None THEN NoUrl ELSE row.url[1],
     source_name |-> IF row.source_name = None THEN UnknownSource
                     ELSE row.source_name[1]]

\* transform_news_data(data): [] when pd.to_datetime raises on a row
transform_news_data(data) ==
    IF \E i \in DOMAIN data : ~data[i].publishedAtParses THEN <<>>
    ELSE [i \in DOMAIN data |-> transformed_news_record(data[i])]

\* one batch of run_news_etl: extract, transform, load
news_batch(store, s0, provider, scorer, failAt) ==
    LET news_data == extract_news_data(provider)
    IN  IF news_data = None
        THEN [loaded |-> FALSE, db |-> store, closed |-> FALSE]
        ELSE LET transformed == transform_news_data(news_data[1])
             IN  IF transformed = <<>>
                 THEN [loaded |-> FALSE, db |-> store, closed |-> FALSE]
                 ELSE LET r == load_news_data(store, s0, transformed, scorer,
                                              failAt)
                      IN  [loaded |-> r.ret, db |-> r.db, closed |-> TRUE]

--------------------------------------------------------------------------
(* Inputs *)

\* a transformed price record (prices in cents): transform_stock_data sets
\* adjusted_close to close_price
PriceRecord(sym, d, v) ==
    [symbol |-> sym, date |-> d, open_price |-> v, high_price |-> v + 2,
     low_price |-> v - 1, close_price |-> v + 1, adjusted_close |-> v + 1,
     volume |-> 100 * v]

\* two symbols, two dates, and two bars with different values for one key
PriceRecords ==
    {PriceRecord(AB, 1, 10), PriceRecord(AB, 1, 20), PriceRecord(AB, 2, 10),
     PriceRecord(MS, 1, 10)}

CompanyInfo(name, cap) ==
    [Name |-> name, Sector |-> Some(<<"T">>), Exchange |-> Some(<<"N">>),
     MarketCapitalization |-> cap]

\* company overviews: a parsed cap, the text "None", a text int() rejects,
\* and a missing longName
CompanyInfos ==
    {CompanyInfo(Some(<<"A", "b", "c">>), <<"1", "0", "0">>),
     CompanyInfo(Some(<<"A", "b", "c">>), NoneText),
     CompanyInfo(Some(<<"A", "b", "c">>), <<"1", ".", "5">>),
     CompanyInfo(None, <<"1", "0", "0">>)}

Symbols == {AB, MS}

\* a transformed news record; author and published_at are copied to the row
\* like title and are left out
NewsRecord(url, title, content, source) ==
    [url |-> url, title |-> title, content |-> content, source_name |-> source]

\* two records with one url and different titles, a record without url from
\* a source of its own, and a record with a second url
NewsRecords ==
    {NewsRecord("u1", <<"a", "b">>, <<>>, "Reuters"),
     NewsRecord("u1", <<"x">>, <<>>, "Reuters"),
     NewsRecord(NoUrl, <<"a", "b">>, <<>>, "Blog"),
     NewsRecord("u2", <<"n">>, <<"a", "B", "C">>, "Wire")}

\* what the sentiment analyzer does during one load call
Scorers ==
    {[m \in Models |-> "positive"],
     [m \in Models |-> IF m = "VADER" THEN "raise" ELSE "positive"],
     [m \in Models |-> IF m = "TextBlob" THEN "raise" ELSE "positive"]}

\* where the store raises during a load call over data: nowhere (0), while
\* record i is processed, or at the commit (Len + 1)
FailPoints(data) == 0..(Len(data) + 1)

--------------------------------------------------------------------------
(* The calls on the pipeline, as actions *)

NoCall ==
    [op |-> "none", ret |-> FALSE, bars |-> {}, news |-> <<>>,
     scorer |-> [m \in Models |-> "positive"], symbol |-> <<>>, news_id |-> 0,
     stock_success |-> FALSE, company_success |-> FALSE, stages |-> <<>>,
     dates |-> {}, failAt |-> 0, input |-> <<>>]

\* run_continuous_tracking is not running
NoTracker ==
    [pc |-> "off", cycle_count |-> 0, completed |-> 0, k |-> 0,
     stocks_updated |-> 0, now |-> 0, last_update_time |-> {},
     last_news_update |-> 0, companies_to_track |-> <<>>,
     db_manager_open |-> FALSE, session_open |-> TRUE, reported |-> None]

\* run_full_etl is not running; due holds the jobs schedule.run_pending() has
\* found due and not yet called, jobs the jobs registered with schedule, and
\* startup tells that start_scheduler has not yet called run_pending()
NoRun ==
    [pc |-> "idle", i |-> 0, fresh |-> FALSE, calls |-> <<>>, due |-> {},
     jobs |-> {}, startup |-> FALSE]

Init ==
    /\ db = EmptyTables
    /\ pending = EmptyTables
    /\ last = NoCall
    /\ run = NoRun
    /\ tracker = NoTracker

\* the pipeline is single-threaded: a call starts when no call is in progress
Idle == last.op = "none" /\ run.pc = "idle"

LoadStockData(inputs) ==
    /\ Idle
    /\ \E data \in SeqsUpTo(inputs, MaxBatch) : \E failAt \in FailPoints(data) :
        LET r == load_stock_data(db, session_begin, data, failAt)
        IN  /\ db' = r.db
            /\ pending' = EmptyTables
            /\ last' = [NoCall EXCEPT !.op = "load_stock_data", !.ret = r.ret,
                                      !.bars = Range(data), !.failAt = failAt]
            /\ UNCHANGED <<run, tracker>>

LoadCompanyData(inputs) ==
    /\ Idle
    /\ \E company_info \in inputs : \E symbol \in Symbols : \E fail \in BOOLEAN :
        LET r == load_company_data(db, session_begin, company_info, symbol, fail)
        IN  /\ db' = r.db
            /\ pending' = IF r.open THEN pending ELSE EmptyTables
            /\ last' = [NoCall EXCEPT !.op = "load_company_data", !.ret = r.ret,
                                      !.symbol = symbol, !.input = company_info,
                                      !.failAt = IF fail THEN 1 ELSE 0]
            /\ UNCHANGED <<run, tracker>>

LoadNewsData(inputs) ==
    /\ Idle
    /\ \E data \in SeqsUpTo(inputs, MaxBatch) : \E scorer \in Scorers :
      \E failAt \in FailPoints(data) :
        LET r == load_news_data(db, session_begin, data, scorer, failAt)
        IN  /\ db' = r.db
            /\ pending' = EmptyTables
            /\ last' = [NoCall EXCEPT !.op = "load_news_data", !.ret = r.ret,
                                      !.news = data, !.scorer = scorer,
                                      !.failAt = failAt]
            /\ UNCHANGED <<run, tracker>>

\* link_news_to_stocks(news_record) for an article of the store; it returns
\* nothing and leaves what it added in the open transaction
LinkNewsToStocks ==
    /\ Idle
    /\ \E news_record \in db.news :
        LET s == link_news_to_stocks(session_begin, news_record)
        IN  /\ pending' = [t \in DOMAIN s |-> s[t] \ db[t]]
            /\ db' = db
            /\ last' = [NoCall EXCEPT !.op = "link_news_to_stocks",
                                      !.news_id = news_record.news_id]
            /\ UNCHANGED <<run, tracker>>

\* the caller takes the return value: the call is over
Return ==
    /\ last.op # "none"
    /\ last' = NoCall
    /\ UNCHANGED <<storeVars, run, tracker>>

vars == <<db, pending, last, run, tracker>>

\* the price and company-info loads on an empty store
Next == LoadStockData(PriceRecords) \/ LoadCompanyData(CompanyInfos) \/ Return

Spec == Init /\ [][Next]_vars

--------------------------------------------------------------------------
(* Reading the store *)

\* the PriceRecords stored for (symbol, date)
PriceRows(d, symbol, date) ==
    {p \in d.prices : /\ p.date = date
                      /\ \E st \in d.stocks : /\ st.symbol = symbol
                                              /\ st.stock_id = p.stock_id}

\* open/high/low/close/adjustedClose/volume of a price row or a record
PriceValues(p) ==
    <<p.open_price, p.high_price, p.low_price, p.close_price,
      p.adjusted_close, p.volume>>

--------------------------------------------------------------------------
(* C1 *)

\* C1: a load_stock_data call that carries a bar for a (symbol, date) already
\* committed leaves exactly one PriceRecord for that key, the one stored
\* before the call with its values unchanged; and a PriceRecord that a call
\* commits for a new key has the values of a bar that call carried.
C1_IdempotentPriceLoad ==
    [][last'.op = "load_stock_data" =>
          \A rec \in last'.bars :
             LET before == PriceRows(db, rec.symbol, rec.date)
                 after == PriceRows(db', rec.symbol, rec.date)
             IN  /\ before # {} => after = before /\ Cardinality(after) = 1
                 /\ before = {} /\ last'.ret =>
                       /\ Cardinality(after) = 1
                       /\ \A p \in after : \E r2 \in last'.bars :
                              /\ r2.symbol = rec.symbol /\ r2.date = rec.date
                              /\ PriceValues(p) = PriceValues(r2)]_vars

\* a committed load carried a bar for a stored key with other values than
\* the stored ones, and no bar of that call has the stored values
C1_Witness ==
    /\ last.op = "load_stock_data" /\ last.ret
    /\ \E rec \in last.bars : \E p \in PriceRows(db, rec.symbol, rec.date) :
          \A r2 \in last.bars :
              r2.symbol = rec.symbol /\ r2.date = rec.date
                  => PriceValues(r2) # PriceValues(p)

--------------------------------------------------------------------------
(* The news load on a store that holds stocks *)

\* Stock rows the store holds when the pipeline is constructed: an active
\* stock with its company name and an inactive one
SeedStocks ==
    {[stock_id |-> 1, symbol |-> AB, company_name |-> <<"A", "b", "c">>,
      sector |-> None, exchange |-> None, market_cap |-> None,
      is_active |-> TRUE],
     [stock_id |-> 2, symbol |-> MS, company_name |-> <<"N">>,
      sector |-> None, exchange |-> None, market_cap |-> None,
      is_active |-> FALSE]}

InitNews ==
    /\ db \in {EmptyTables, [EmptyTables EXCEPT !.stocks = SeedStocks]}
    /\ pending = EmptyTables
    /\ last = NoCall
    /\ run = NoRun
    /\ tracker = NoTracker

NextNews == LoadNewsData(NewsRecords) \/ LinkNewsToStocks \/ Return

SpecNews == InitNews /\ [][NextNews]_vars

--------------------------------------------------------------------------
(* C3, C4 *)

\* the NewsArticles stored for a url
Articles(d, url) == {n \in d.news : n.url = url}

\* the first record of a batch that carries a url
FirstWithUrl(data, url) ==
    data[CHOOSE i \in DOMAIN data :
            /\ data[i].url = url
            /\ \A j \in DOMAIN data : data[j].url = url => i <= j]

\* C3: a load_news_data call that carries a record for a url already stored
\* leaves exactly one NewsArticle for that url, the stored one with its
\* title; a call that commits a new url stores exactly one article for it,
\* with the title of the first record of the batch that carries the url.
C3_UrlKeyedDedup ==
    [][last'.op = "load_news_data" =>
          \A i \in DOMAIN last'.news :
             LET url == last'.news[i].url
                 before == Articles(db, url)
                 after == Articles(db', url)
             IN  url # NoUrl =>
                   /\ before # {} => after = before /\ Cardinality(after) = 1
                   /\ before = {} /\ last'.ret =>
                         /\ Cardinality(after) = 1
                         /\ \A n \in after :
                               n.title = FirstWithUrl(last'.news, url).title]_vars

\* a committed batch held two records with one url and different titles, and
\* the article of that url is stored
C3_Witness ==
    /\ last.op = "load_news_data" /\ last.ret
    /\ \E i, j \in DOMAIN last.news :
          /\ i < j
          /\ last.news[i].url = last.news[j].url
          /\ last.news[i].url # NoUrl
          /\ last.news[i].title # last.news[j].title
          /\ \E n \in Articles(db, last.news[i].url) :
                n.title = last.news[i].title

\* C4: every NewsArticle a load_news_data call adds has a (non-null) url
\* carried by the batch, every SentimentRecord it adds belongs to an article
\* it added, and it creates no StockNewsRelation; so a record whose url is
\* null produces no article, no SentimentRecord and no relation.
C4_NoUrlDropped ==
    [][last'.op = "load_news_data" =>
          LET carried == {last'.news[i].url : i \in DOMAIN last'.news} \ {NoUrl}
              added == db'.news \ db.news
          IN  /\ \A n \in added : n.url \in carried
              /\ Cardinality(added) <= Cardinality(carried)
              /\ \A sn \in db'.sents \ db.sents :
                    \E n \in added : n.news_id = sn.news_id
              /\ (db'.rels \ db.rels) \subseteq pending.rels]_vars

\* a committed batch held a record without url next to a record whose
\* article is stored
C4_Witness ==
    /\ last.op = "load_news_data" /\ last.ret
    /\ \E i, j \in DOMAIN last.news :
          /\ last.news[i].url = NoUrl
          /\ Articles(db, last.news[j].url) # {}

--------------------------------------------------------------------------
(* C5, C6 *)

\* the SentimentRecords of an article
Sentiments(d, n) == {sn \in d.sents : sn.news_id = n.news_id}

\* the models whose scoring pass fails
Failing(scorer) == {m \in Models : scorer[m] = "raise"}

\* C5: every NewsArticle a committed load_news_data call inserts has one
\* SentimentRecord per model when both passes succeed, and exactly the other
\* model's record when exactly one pass fails.
C5_SentimentCardinality ==
    [][last'.op = "load_news_data" /\ last'.ret =>
          \A n \in db'.news \ db.news :
             LET recs == Sentiments(db', n)
                 failing == Failing(last'.scorer)
             IN  Cardinality(failing) <= 1 =>
                   /\ {sn.analysis_model : sn \in recs} = Models \ failing
                   /\ Cardinality(recs) = Cardinality(Models \ failing)]_vars

\* a letter and its other case
SameLetter(a, b) == LowerChar(a) = LowerChar(b)

\* needle occurs in hay, letters compared without case
OccursIgnoringCase(needle, hay) ==
    \E i \in 0..(Len(hay) - Len(needle)) :
        \A k \in 1..Len(needle) : SameLetter(needle[k], hay[i + k])

\* the article's title + " " + content mentions the stock
Mentions(n, st) ==
    LET text == n.title \o <<" ">> \o n.content
    IN  OccursIgnoringCase(st.symbol, text)
            \/ OccursIgnoringCase(st.company_name, text)

\* C6: when load_news_data returns true, every article it inserted is linked
\* to every active Stock its text mentions.
C6_LoadLinksNews ==
    [][last'.op = "load_news_data" /\ last'.ret =>
          \A n \in db'.news \ db.news : \A st \in db'.stocks :
             st.is_active /\ Mentions(n, st) =>
                \E r \in db'.rels : /\ r.stock_id = st.stock_id
                                    /\ r.news_id = n.news_id]_vars

--------------------------------------------------------------------------
(* C7 *)

\* the relations the session holds, committed or not
SessionRels(d, p) == d.rels \cup p.rels

\* C7: link_news_to_stocks(article) adds relations for that article only,
\* each with relevanceScore 0.75 and for an active Stock the text mentions;
\* after the call every active Stock the text mentions has exactly one
\* relation with the article, added now or there before.
C7_RelevanceMatching ==
    [][last'.op = "link_news_to_stocks" =>
          \A n \in db.news : n.news_id = last'.news_id =>
             LET before == SessionRels(db, pending)
                 after == SessionRels(db', pending')
             IN  /\ before \subseteq after
                 /\ \A r \in after \ before :
                       /\ r.news_id = n.news_id
                       /\ r.relevance_score = 75
                       /\ \E st \in db.stocks :
                             /\ st.stock_id = r.stock_id
                             /\ st.is_active /\ Mentions(n, st)
                 /\ \A st \in db.stocks :
                       st.is_active /\ Mentions(n, st) =>
                          Cardinality({r \in after :
                              /\ r.stock_id = st.stock_id
                              /\ r.news_id = n.news_id}) = 1]_vars

\* link_news_to_stocks was called again for an article whose relation is
\* committed, the text mentions the active stock by its name in another case
\* and not by its symbol, and an inactive stock it mentions has no relation
C7_Witness ==
    /\ last.op = "link_news_to_stocks"
    /\ \E n \in db.news : \E st, off \in db.stocks :
          /\ n.news_id = last.news_id
          /\ st.is_active /\ Mentions(n, st)
          /\ ~IsSubstring(st.symbol, n.title \o <<" ">> \o n.content)
          /\ ~IsSubstring(st.company_name, n.title \o <<" ">> \o n.content)
          /\ \E r \in db.rels : r.stock_id = st.stock_id /\ r.news_id = n.news_id
          /\ ~off.is_active /\ Mentions(n, off)
          /\ ~\E r \in SessionRels(db, pending) :
                 r.stock_id = off.stock_id /\ r.news_id = n.news_id

--------------------------------------------------------------------------
(* All the loads on one store, and C2 *)

StorePriceRecords ==
    {PriceRecord(AB, 1, 10), PriceRecord(AB, 1, 20), PriceRecord(MS, 1, 10)}

StoreCompanyInfos ==
    {CompanyInfo(Some(<<"A", "b", "c">>), <<"1", "0", "0">>),
     CompanyInfo(None, <<"1", "0", "0">>)}

StoreNewsRecords == {r \in NewsRecords : r.url # "u2"}

NextStore ==
    \/ LoadStockData(StorePriceRecords)
    \/ LoadCompanyData(StoreCompanyInfos)
    \/ LoadNewsData(StoreNewsRecords)
    \/ LinkNewsToStocks
    \/ Return

SpecStore == Init /\ [][NextStore]_vars

\* no two rows of a table agree on key
Unique(rows, key(_)) == \A r1, r2 \in rows : key(r1) = key(r2) => r1 = r2

StockKey(st) == st.symbol
PriceKey(p) == <<p.stock_id, p.date>>
SourceKey(src) == src.source_name
NewsKey(n) == n.url
RelationKey(r) == <<r.stock_id, r.news_id>>
SentimentKey(sn) == <<sn.news_id, sn.analysis_model>>

\* C2: in every state of the committed store there is at most one Stock per
\* symbol, one PriceRecord per (stock, date), one NewsSource per sourceName,
\* one NewsArticle per url, one StockNewsRelation per (stock, article) and
\* one SentimentRecord per (article, model).
C2_NaturalKeysUnique ==
    /\ Unique(db.stocks, StockKey)
    /\ Unique(db.prices, PriceKey)
    /\ Unique(db.sources, SourceKey)
    /\ Unique(db.news, NewsKey)
    /\ Unique(db.rels, RelationKey)
    /\ Unique(db.sents, SentimentKey)

\* a committed price batch repeated a key, on a store that holds rows of
\* every table
C2_Witness ==
    /\ last.op = "load_stock_data" /\ last.ret
    /\ \E r1, r2 \in last.bars :
          r1 # r2 /\ r1.symbol = r2.symbol /\ r1.date = r2.date
    /\ \A t \in DOMAIN db : db[t] # {}

--------------------------------------------------------------------------
(* The orchestration: run_stock_etl and run_full_etl *)

\* the tracked symbols (two of the eight of the source)
tracked_symbols == <<AB, MS>>

\* rows of a price history: two dates and a row with a NaN volume; a history
\* may hold a row twice
YfRows ==
    {YfRow(1, 10, Some(100)), YfRow(2, 20, Some(300)), YfRow(2, 10, None)}

\* what Ticker.history does in one call
Histories ==
    {[raises |-> TRUE, rows |-> <<>>]}
        \cup {[raises |-> FALSE, rows |-> rs] : rs \in SeqsUpTo(YfRows, MaxRows)}

TickerInfo(name, cap) ==
    [raises |-> FALSE, empty |-> FALSE, longName |-> name,
     sector |-> Some(<<"T">>), exchange |-> Absent, marketCap |-> cap]

\* what Ticker.info does in one call
Tickers ==
    {[TickerInfo(Absent, Absent) EXCEPT !.raises = TRUE],
     [TickerInfo(Absent, Absent) EXCEPT !.empty = TRUE],
     TickerInfo(Some(<<"A", "b", "c">>), Some(100)),
     TickerInfo(None, None)}

RawNews(url, title, parses) ==
    [url |-> url, title |-> title, content |-> None, source_name |-> None,
     publishedAtParses |-> parses]

\* what the news fetcher does in one call
NewsProviders ==
    {[raises |-> TRUE, frame |-> None],
     [raises |-> FALSE, frame |-> None],
     [raises |-> FALSE, frame |-> Some(<<>>)],
     [raises |-> FALSE, frame |-> Some(<<RawNews(Some("u1"), Some(<<"a", "b">>), TRUE)>>)],
     [raises |-> FALSE, frame |-> Some(<<RawNews(None, None, TRUE)>>)],
     [raises |-> FALSE, frame |-> Some(<<RawNews(Some("u1"), Some(<<"x">>), FALSE)>>)]}

\* the dates of the bars get_daily_stock_data returns (none for None)
ProvidedDates(history) ==
    LET data == get_daily_stock_data(history)
    IN  IF data = None THEN {}
        ELSE {IntOfText(ds) : ds \in DOMAIN data[1]}

\* the record of one run_stock_etl call
StockEtlCall(symbol, history, r) ==
    [NoCall EXCEPT !.op = "run_stock_etl", !.ret = r.ret, !.symbol = symbol,
                   !.stock_success = r.stock_success,
                   !.company_success = r.company_success,
                   !.stages = r.stages, !.dates = ProvidedDates(history)]

\* run_stock_etl(symbol), called on its own
RunStockEtl ==
    /\ Idle
    /\ \E symbol \in Symbols : \E history \in Histories : \E ticker \in Tickers :
         \E failAt \in 0..(Len(history.rows) + 1) : \E fail \in BOOLEAN :
            \E r \in {run_stock_etl(db, pending, symbol, history, ticker,
                                    failAt, fail)} :
                /\ db' = r.db
                /\ pending' = r.pending
                /\ last' = StockEtlCall(symbol, history, r)
                /\ UNCHANGED <<run, tracker>>

\* run_full_etl starts
StartFullEtl ==
    /\ Idle
    /\ run' = [NoRun EXCEPT !.pc = "stocks", !.i = 1,
                            !.fresh = (db = EmptyTables)]
    /\ UNCHANGED <<storeVars, last, tracker>>

\* a loop that a failed symbol ends
after_stock_etl_aborting(i, ret) ==
    IF ~ret THEN [pc |-> "done", i |-> 0]
    ELSE IF i < Len(tracked_symbols) THEN [pc |-> "stocks", i |-> i + 1]
    ELSE [pc |-> "news", i |-> 0]

\* a run that starts the news after its first symbol
after_stock_etl_early_news(i, ret) == [pc |-> "news", i |-> 0]

\* where run_full_etl goes after run_stock_etl for symbol i has returned ret
after_stock_etl(i, ret) ==
    IF i < Len(tracked_symbols) THEN [pc |-> "stocks", i |-> i + 1]
    ELSE [pc |-> "news", i |-> 0]

\* what the log of run_full_etl keeps of a call
Logged(call) ==
    [op |-> call.op, symbol |-> call.symbol, ret |-> call.ret,
     dates |-> call.dates,
     load_ran |-> \E k \in DOMAIN call.stages :
                      call.stages[k] = "load_stock_data"]

\* one turn of the for loop of run_full_etl: run_stock_etl(symbol)
FullEtlStock ==
    /\ run.pc = "stocks" /\ last.op = "none"
    /\ \E history \in Histories : \E ticker \in Tickers :
         \E failAt \in 0..(Len(history.rows) + 1) : \E fail \in BOOLEAN :
            \E r \in {run_stock_etl(db, pending, tracked_symbols[run.i],
                                    history, ticker, failAt, fail)} :
              \E call \in {StockEtlCall(tracked_symbols[run.i], history, r)} :
                /\ db' = r.db
                /\ pending' = r.pending
                /\ last' = call
                /\ run' = [run EXCEPT
                      !.pc = after_stock_etl(run.i, r.ret).pc,
                      !.i = after_stock_etl(run.i, r.ret).i,
                      !.calls = Append(@, Logged(call))]
                /\ UNCHANGED tracker

\* run_news_etl inside run_full_etl: batch 0 is the business headlines,
\* batch k the news of tracked symbol k
FullEtlNews ==
    /\ run.pc = "news" /\ last.op = "none"
    /\ \E provider \in NewsProviders : \E scorer \in Scorers :
         \E failAt \in 0..2 :
            \E r \in {news_batch(db, session_begin, provider, scorer, failAt)} :
              \E call \in {[NoCall EXCEPT !.op = "run_news_etl",
                                          !.ret = r.loaded]} :
                /\ db' = r.db
                /\ pending' = IF r.closed THEN EmptyTables ELSE pending
                /\ last' = call
                /\ run' = [run EXCEPT
                      !.pc = IF run.i < Len(tracked_symbols) THEN "news"
                             ELSE "done",
                      !.i = run.i + 1,
                      !.calls = IF run.i = 0 THEN Append(@, Logged(call))
                                ELSE @]
                /\ UNCHANGED tracker

\* run_full_etl returns (nothing)
FinishFullEtl ==
    /\ run.pc = "done" /\ last.op = "none"
    /\ run' = [run EXCEPT !.pc = "returned"]
    /\ last' = [NoCall EXCEPT !.op = "run_full_etl"]
    /\ UNCHANGED <<storeVars, tracker>>

\* a store the pipeline may be constructed on: empty, or holding what an
\* earlier run loaded for the first tracked symbol
LoadedBefore ==
    load_stock_data(EmptyTables, EmptyTables,
                    <<PriceRecord(AB, 1, 30)>>, 0).db

InitEtl ==
    /\ db \in {EmptyTables, LoadedBefore}
    /\ pending = EmptyTables
    /\ last = NoCall
    /\ run = NoRun
    /\ tracker = NoTracker

\* one run of run_full_etl
NextEtl ==
    \/ StartFullEtl
    \/ FullEtlStock
    \/ FullEtlNews
    \/ FinishFullEtl
    \/ Return

SpecEtl == InitEtl /\ [][NextEtl]_vars

\* run_stock_etl called on its own, any number of times
NextStockEtl == RunStockEtl \/ Return

SpecStockEtl == InitEtl /\ [][NextStockEtl]_vars

--------------------------------------------------------------------------
(* C8, C9: run_full_etl *)

\* run_full_etl is past its last call
FullEtlOver == run.pc \in {"done", "returned"}

\* the PriceRecords stored for a symbol
SymbolPrices(d, symbol) ==
    {p \in d.prices : \E st \in d.stocks : /\ st.symbol = symbol
                                           /\ st.stock_id = p.stock_id}

\* C8: whatever run_stock_etl returned for each tracked symbol (the provider
\* raised or returned nothing, the transform or the store failed), a run of
\* run_full_etl has invoked run_stock_etl once for every tracked symbol, in
\* the order of the list, then run_news_etl, and it goes on to return.
C8_FailureIsolation ==
    /\ FullEtlOver =>
          /\ Len(run.calls) = Len(tracked_symbols) + 1
          /\ \A i \in 1..Len(tracked_symbols) :
                /\ run.calls[i].op = "run_stock_etl"
                /\ run.calls[i].symbol = tracked_symbols[i]
          /\ run.calls[Len(tracked_symbols) + 1].op = "run_news_etl"
    /\ run.pc \in {"stocks", "news"} =>
          /\ Len(run.calls) < Len(tracked_symbols) + 1 \/ run.pc = "news"
          /\ \A i \in 1..Len(run.calls) :
                i <= Len(tracked_symbols) =>
                    run.calls[i].symbol = tracked_symbols[i]

\* the run returned although the store rejected the first symbol's batch, and
\* the second symbol was loaded
C8_Witness ==
    /\ run.pc = "returned"
    /\ run.calls[1].load_ran /\ ~run.calls[1].ret
    /\ run.calls[2].ret
    /\ SymbolPrices(db, tracked_symbols[1]) = {}
    /\ SymbolPrices(db, tracked_symbols[2]) # {}

\* the store raised while the price batch of call c was loaded
StoreRejected(c) == c.load_ran /\ ~c.ret

\* C9 as stated: after a run of run_full_etl on an empty store, each tracked
\* symbol has as many PriceRecords as the provider returned distinct dated
\* bars for it, and its run result is success exactly when the provider
\* returned bars.
C9_FullRunCounts ==
    FullEtlOver /\ run.fresh =>
        \A i \in 1..Len(tracked_symbols) :
            /\ Cardinality(SymbolPrices(db, tracked_symbols[i]))
                  = Cardinality(run.calls[i].dates)
            /\ run.calls[i].ret = (run.calls[i].dates # {})

\* C9 amended: the same, for every tracked symbol whose price batch the store
\* did not reject; a symbol whose batch the store rejected has no PriceRecord
\* and a failure result.
C9_FullRunCountsUnlessStoreFails ==
    FullEtlOver /\ run.fresh =>
        \A i \in 1..Len(tracked_symbols) :
            LET c == run.calls[i]
                n == Cardinality(SymbolPrices(db, tracked_symbols[i]))
            IN  /\ ~StoreRejected(c) =>
                      n = Cardinality(c.dates) /\ c.ret = (c.dates # {})
                /\ StoreRejected(c) => n = 0 /\ ~c.ret

\* a run on an empty store: two bars stored for the first symbol, none
\* provided for the second
C9_Witness ==
    /\ run.pc = "returned" /\ run.fresh
    /\ run.calls[1].dates = {1, 2} /\ run.calls[1].ret
    /\ Cardinality(SymbolPrices(db, tracked_symbols[1])) = 2
    /\ run.calls[2].dates = {} /\ ~run.calls[2].ret
    /\ SymbolPrices(db, tracked_symbols[2]) = {}

--------------------------------------------------------------------------
(* C10: run_stock_etl *)

\* C10: run_stock_etl returns true exactly when load_stock_data ran and
\* committed: then every bar the provider returned is stored for the symbol,
\* otherwise the stored prices are those from before the call.  The
\* extraction of the company information runs in every call, and what it and
\* the load after it do is not in the returned value.
C10_ReturnIsPriceLoad ==
    [][last'.op = "run_stock_etl" =>
          /\ last'.ret = last'.stock_success
          /\ last'.ret =>
                /\ "load_stock_data" \in Range(last'.stages)
                /\ \A date \in last'.dates :
                      PriceRows(db', last'.symbol, date) # {}
          /\ ~last'.ret => db'.prices = db.prices
          /\ "extract_company_info" \in Range(last'.stages)]_vars

\* a call returned true although the store rejected the company information
C10_Witness ==
    /\ last.op = "run_stock_etl" /\ last.ret
    /\ "load_company_data" \in Range(last.stages)
    /\ ~last.company_success
    /\ SymbolPrices(db, last.symbol) # {}

--------------------------------------------------------------------------
(* C11: load_stock_data is all-or-nothing *)

\* C11: a load_stock_data call during which the store raises, at any record
\* or at the commit, returns false and leaves the committed store as it was:
\* no PriceRecord of the batch and no Stock created for it persists.
C11_PriceLoadAllOrNothing ==
    [][last'.op = "load_stock_data" /\ last'.failAt # 0 =>
          /\ ~last'.ret
          /\ db' = db
          /\ \A rec \in last'.bars :
                PriceRows(db', rec.symbol, rec.date)
                    = PriceRows(db, rec.symbol, rec.date)]_vars

\* the store raised after the first record of a batch had created the Stock
\* of a symbol the store does not hold
C11_Witness ==
    /\ last.op = "load_stock_data" /\ ~last.ret
    /\ last.failAt >= 2
    /\ \E rec \in last.bars : ~\E st \in db.stocks : st.symbol = rec.symbol
    /\ \A rec \in last.bars : ~\E st \in db.stocks : st.symbol = rec.symbol

--------------------------------------------------------------------------
(* C12, C13: load_news_data and its errors *)

\* C12: a load_news_data call during which scoring fails and the store raises
\* nothing returns true, and every record of the batch that carries a url has
\* its NewsArticle in the committed store.
C12_EnrichmentFailureIsolated ==
    [][/\ last'.op = "load_news_data"
       /\ last'.failAt = 0
       /\ Failing(last'.scorer) # {}
       => /\ last'.ret
          /\ \A i \in DOMAIN last'.news :
                last'.news[i].url # NoUrl =>
                    Cardinality(Articles(db', last'.news[i].url)) = 1]_vars

\* scoring failed in a call that inserted two articles: both are stored, the
\* call returned true
C12_Witness ==
    /\ last.op = "load_news_data" /\ last.ret
    /\ "VADER" \in Failing(last.scorer)
    /\ Len(last.news) = 2
    /\ last.news[1].url # NoUrl /\ last.news[2].url # NoUrl
    /\ last.news[1].url # last.news[2].url
    /\ \A i \in {1, 2} : \E n \in Articles(db, last.news[i].url) :
          /\ Sentiments(db, n) = {}
          /\ n.title = last.news[i].title

\* C13: a load_news_data call during which the store raises outside the
\* scoring, at any record or at the commit, returns false, and the committed
\* NewsSources, NewsArticles and SentimentRecords are those from before the
\* call.
C13_NewsLoadRollsBack ==
    [][last'.op = "load_news_data" /\ last'.failAt # 0 =>
          /\ ~last'.ret
          /\ db'.sources = db.sources
          /\ db'.news = db.news
          /\ db'.sents = db.sents]_vars

\* the store raised after the first record of the batch, which carried a new
\* source and a new url and was scored
C13_Witness ==
    /\ last.op = "load_news_data" /\ ~last.ret
    /\ last.failAt >= 2
    /\ Failing(last.scorer) = {}
    /\ last.news[1].url # NoUrl
    /\ Articles(db, last.news[1].url) = {}
    /\ ~\E src \in db.sources : src.source_name = last.news[1].source_name

--------------------------------------------------------------------------
(* C14: load_company_data only enriches *)

\* the overview dicts get_company_overview returns
CompanyOverviews ==
    {get_company_overview(ticker)[1] :
        ticker \in {tk \in Tickers : get_company_overview(tk) # None}}

\* load_company_data and run_stock_etl on one store
NextCompany == LoadCompanyData(CompanyOverviews) \/ RunStockEtl \/ Return

SpecCompany == Init /\ [][NextCompany]_vars

\* the store holds a Stock row for the symbol
HasStock(d, symbol) == \E st \in d.stocks : st.symbol = symbol

\* C14: load_company_data for a symbol that has no Stock row returns false
\* and leaves the committed store as it was; and a run_stock_etl call whose
\* price half fails, for a symbol that has no Stock row, leaves the symbol
\* without a Stock row, whatever the company information fetched.
C14_CompanyLoadOnlyEnriches ==
    [][/\ last'.op = "load_company_data" /\ ~HasStock(db, last'.symbol)
          => ~last'.ret /\ db' = db
       /\ last'.op = "run_stock_etl" /\ ~last'.stock_success
                /\ ~HasStock(db, last'.symbol)
          => ~HasStock(db', last'.symbol) /\ db' = db]_vars

\* run_stock_etl for a symbol without Stock row: no prices were extracted,
\* the company information was fetched and its load returned false
C14_Witness ==
    /\ last.op = "run_stock_etl"
    /\ last.stages = <<"extract_stock_data", "extract_company_info",
                       "load_company_data">>
    /\ ~last.company_success
    /\ ~HasStock(db, last.symbol)
    /\ db # EmptyTables

--------------------------------------------------------------------------
(* start_scheduler: the initial run_full_etl, then the jobs of            *)
(* schedule_etl_jobs, one after the other, for ever                       *)

\* the rows run_stock_updates keeps of a frame
HeadRows == 5

\* DataFrame.head(n)
head(df, n) == SubSeq(df, 1, Min(n, Len(df)))

\* one turn of the for loop of run_stock_updates; passed is the list handed
\* to load_stock_data
stock_update(store, s0, symbol, history, failAt) ==
    LET stock_data == extract_stock_data(symbol, history)
    IN  IF stock_data = None
        THEN [loaded |-> FALSE, db |-> store, closed |-> FALSE, passed |-> <<>>]
        ELSE
        LET recent_data == head(stock_data[1], HeadRows)
            transformed_data == transform_stock_data(recent_data, symbol)
        IN  IF transformed_data = <<>>
            THEN [loaded |-> FALSE, db |-> store, closed |-> FALSE,
                  passed |-> <<>>]
            ELSE LET r == load_stock_data(store, s0, transformed_data, failAt)
                 IN  [loaded |-> r.ret, db |-> r.db, closed |-> TRUE,
                      passed |-> transformed_data]

\* what Ticker.history does in a call made by a job
JobHistories ==
    {[raises |-> TRUE, rows |-> <<>>],
     [raises |-> FALSE, rows |-> <<YfRow(1, 10, Some(100))>>],
     [raises |-> FALSE, rows |-> <<YfRow(1, 10, Some(100)), YfRow(2, 20, Some(300))>>],
     [raises |-> FALSE, rows |-> <<YfRow(2, 10, None)>>]}

\* the jobs schedule_etl_jobs registers
Jobs == {"run_stock_updates", "run_news_etl", "run_full_etl"}

\* a scheduler that calls run_pending() while a job is running
AtTick_unsynchronised ==
    /\ run.pc \in Jobs \cup {"tick"} /\ run.due = {}
    /\ last.op = "none" /\ tracker.pc = "off"

\* the while loop of start_scheduler calls schedule.run_pending(): the sleep
\* is over and no job is running or waiting
AtTick ==
    /\ run.pc = "tick" /\ run.due = {}
    /\ last.op = "none" /\ tracker.pc = "off"

\* the position a job starts at
first_turn(job) == IF job = "run_news_etl" THEN 0 ELSE 1

\* a start_scheduler that goes to its while loop without the initial ETL
InitScheduler_without_initial_etl ==
    /\ db = EmptyTables
    /\ pending = EmptyTables
    /\ last = NoCall
    /\ run = [NoRun EXCEPT !.pc = "tick", !.jobs = Jobs, !.startup = TRUE]
    /\ tracker = NoTracker

\* start_scheduler has registered the jobs and calls run_full_etl
InitScheduler ==
    /\ db = EmptyTables
    /\ pending = EmptyTables
    /\ last = NoCall
    /\ run = [NoRun EXCEPT !.pc = "run_full_etl", !.i = 1, !.jobs = Jobs,
                           !.startup = TRUE]
    /\ tracker = NoTracker

\* schedule.run_pending() finds the jobs that are due and calls the first
RunPending ==
    /\ AtTick
    /\ \E due \in (SUBSET run.jobs) \ {{}} : \E job \in due :
          run' = [NoRun EXCEPT !.pc = job, !.i = first_turn(job),
                               !.due = due \ {job}, !.jobs = run.jobs]
    /\ UNCHANGED <<storeVars, last, tracker>>

\* a job has returned to run_pending(), which calls the next job that was due
RunDueJob ==
    /\ run.pc = "tick" /\ run.due # {}
    /\ last.op = "none" /\ tracker.pc = "off"
    /\ \E job \in run.due :
          run' = [NoRun EXCEPT !.pc = job, !.i = first_turn(job),
                               !.due = run.due \ {job}, !.jobs = run.jobs]
    /\ UNCHANGED <<storeVars, last, tracker>>

\* where a job goes after turn i of a loop over the tracked symbols
after_turn(job, i) ==
    IF i < Len(tracked_symbols) THEN [pc |-> job, i |-> i + 1]
    ELSE IF job = "run_full_etl" THEN [pc |-> "run_full_etl news", i |-> 0]
    ELSE [pc |-> "tick", i |-> 0]

\* one turn of the for loop of run_stock_updates, the provider answering
\* with one of histories; bars keeps what the turn handed to load_stock_data
StockUpdateTurnOn(histories) ==
    /\ run.pc = "run_stock_updates" /\ last.op = "none"
    /\ \E history \in histories : \E failAt \in 0..(Len(history.rows) + 1) :
         \E r \in {stock_update(db, session_begin, tracked_symbols[run.i],
                                history, failAt)} :
            /\ db' = r.db
            /\ pending' = IF r.closed THEN EmptyTables ELSE pending
            /\ last' = [NoCall EXCEPT !.op = "run_stock_updates",
                                      !.ret = r.loaded,
                                      !.symbol = tracked_symbols[run.i],
                                      !.dates = ProvidedDates(history),
                                      !.bars = Range(r.passed),
                                      !.failAt = failAt]
            /\ run' = [run EXCEPT !.pc = after_turn("run_stock_updates", run.i).pc,
                                  !.i = after_turn("run_stock_updates", run.i).i]
            /\ UNCHANGED tracker

StockUpdateTurn == StockUpdateTurnOn(JobHistories)

\* one turn of the for loop of run_full_etl, called by the scheduler
FullEtlTurn ==
    /\ run.pc = "run_full_etl" /\ last.op = "none"
    /\ \E history \in JobHistories : \E ticker \in Tickers :
         \E failAt \in 0..(Len(history.rows) + 1) : \E fail \in BOOLEAN :
            \E r \in {run_stock_etl(db, pending, tracked_symbols[run.i],
                                    history, ticker, failAt, fail)} :
                /\ db' = r.db
                /\ pending' = r.pending
                /\ last' = [StockEtlCall(tracked_symbols[run.i], history, r)
                               EXCEPT !.failAt = failAt]
                /\ run' = [run EXCEPT !.pc = after_turn("run_full_etl", run.i).pc,
                                      !.i = after_turn("run_full_etl", run.i).i]
                /\ UNCHANGED tracker

\* a run_news_etl that a failed batch ends
after_news_batch_aborting(i, loaded) ==
    IF loaded /\ i < Len(tracked_symbols) THEN [next |-> TRUE, i |-> i + 1]
    ELSE [next |-> FALSE, i |-> 0]

\* where run_news_etl goes after batch i, whose load returned loaded
after_news_batch(i, loaded) ==
    IF i < Len(tracked_symbols) THEN [next |-> TRUE, i |-> i + 1]
    ELSE [next |-> FALSE, i |-> 0]

\* one batch of run_news_etl, called by the scheduler or by run_full_etl:
\* batch 0 is the business headlines, batch k the news of tracked symbol k;
\* run.calls keeps what the batches of this call returned
NewsEtlBatch ==
    /\ run.pc \in {"run_news_etl", "run_full_etl news"} /\ last.op = "none"
    /\ \E provider \in NewsProviders : \E scorer \in Scorers :
         \E failAt \in 0..2 :
            \E r \in {news_batch(db, session_begin, provider, scorer, failAt)} :
                /\ db' = r.db
                /\ pending' = IF r.closed THEN EmptyTables ELSE pending
                /\ last' = [NoCall EXCEPT !.op = "run_news_etl",
                                          !.ret = r.loaded,
                                          !.scorer = scorer,
                                          !.failAt = failAt]
                /\ run' = [run EXCEPT
                      !.pc = IF after_news_batch(run.i, r.loaded).next THEN @
                             ELSE "tick",
                      !.i = after_news_batch(run.i, r.loaded).i,
                      !.calls = Append(@, r.loaded)]
                /\ UNCHANGED tracker

NextScheduler ==
    \/ RunPending
    \/ RunDueJob
    \/ StockUpdateTurn
    \/ FullEtlTurn
    \/ NewsEtlBatch
    \/ Return

SpecScheduler == InitScheduler /\ [][NextScheduler]_vars

--------------------------------------------------------------------------
(* C15: the loads never delete *)

\* every committed Stock, PriceRecord, NewsSource, NewsArticle and
\* SentimentRecord of d is in e, with its identity and its key
Kept(d, e) ==
    /\ \A st \in d.stocks : \E x \in e.stocks :
          x.stock_id = st.stock_id /\ x.symbol = st.symbol
    /\ \A p \in d.prices : \E x \in e.prices :
          x.price_id = p.price_id /\ x.stock_id = p.stock_id /\ x.date = p.date
    /\ \A src \in d.sources : \E x \in e.sources :
          x.source_id = src.source_id /\ x.source_name = src.source_name
    /\ \A n \in d.news : \E x \in e.news :
          x.news_id = n.news_id /\ x.url = n.url
    /\ \A sn \in d.sents : \E x \in e.sents :
          /\ x.sentiment_id = sn.sentiment_id /\ x.news_id = sn.news_id
          /\ x.analysis_model = sn.analysis_model

\* C15: every step of run_full_etl (its run_stock_etl calls and its
\* run_news_etl), of run_news_etl and of run_stock_updates, failed and rolled
\* back or not, keeps every committed Stock, PriceRecord, NewsSource,
\* NewsArticle and SentimentRecord, with its key.
C15_LoadsAdditive == [][Kept(db, db')]_vars

\* a load was rolled back on a store that holds rows of the five tables, and
\* an earlier one had enriched a Stock
C15_Witness ==
    /\ last.op \in {"run_stock_updates", "run_stock_etl", "run_news_etl"}
    /\ last.failAt # 0 /\ ~last.ret
    /\ \A tbl \in {"stocks", "prices", "sources", "news", "sents"} :
          db[tbl] # {}
    /\ \E st \in db.stocks : st.company_name # st.symbol
    /\ Cardinality(db.prices) >= 3

--------------------------------------------------------------------------
(* C16: the batches of run_news_etl *)

\* C16: whatever a batch of run_news_etl did (extraction, transform or load
\* failed, or it loaded), the batch of the next tracked symbol follows it,
\* run_news_etl ends only after the batch of the last tracked symbol, and
\* every NewsArticle committed before the batch is still stored after it.
C16_NewsBatchesIndependent ==
    [][last'.op = "run_news_etl" =>
          /\ db.news \subseteq db'.news
          /\ Len(run.calls) = run.i
          /\ Len(run'.calls) = run.i + 1
          /\ run.i < Len(tracked_symbols) =>
                run'.pc = run.pc /\ run'.i = run.i + 1
          /\ run.i = Len(tracked_symbols) => run'.pc = "tick"]_vars

\* a run_news_etl whose first batch stored an article, whose second batch
\* was rolled back and whose last batch loaded
C16_Witness ==
    /\ last.op = "run_news_etl" /\ last.ret
    /\ run.pc = "tick"
    /\ Len(run.calls) = Len(tracked_symbols) + 1
    /\ run.calls[1] /\ ~run.calls[2]
    /\ db.news # {}

--------------------------------------------------------------------------
(* ContinuousStockTracker (main.py)                                       *)

\* seconds
update_interval == 300
news_update_interval == 1800
\* the age of last_news_update at construction: timedelta(hours=1)
StartupNewsAge == 3600
\* time.sleep(12) after a symbol
RateLimitSleep == 12

\* load_companies_from_db: the symbols of the active stocks
RECURSIVE companies_of(_)
companies_of(stocks) ==
    IF stocks = {} THEN <<>>
    ELSE LET st == CHOOSE x \in stocks : \A y \in stocks : x.stock_id <= y.stock_id
         IN  <<st.symbol>> \o companies_of(stocks \ {st})

load_companies_from_db(d) == companies_of({st \in d.stocks : st.is_active})

\* should_update_stock(symbol)
should_update_stock(tr, symbol) ==
    \/ ~\E e \in tr.last_update_time : e.symbol = symbol
    \/ \E e \in tr.last_update_time :
          e.symbol = symbol /\ tr.now - e.time >= update_interval

\* should_update_news()
should_update_news(tr) == tr.now - tr.last_news_update >= news_update_interval

\* self.last_update_time[symbol] = datetime.now()
stamped(times, symbol, now) ==
    {e \in times : e.symbol # symbol} \cup {[symbol |-> symbol, time |-> now]}

\* stock_data.empty: get_daily_stock_data returns a dict, and a dict has no
\* attribute 'empty'
has_empty(stock_data) == FALSE

\* the try block of fetch_and_store_stock_data after run_stock_etl returned
\* success: stock_data is what get_daily_stock_data returns for the display
fetch_stock_try(success, stock_data) ==
    IF ~success THEN [raised |-> FALSE, ret |-> FALSE, stamp |-> FALSE]
    ELSE IF stock_data = None THEN [raised |-> FALSE, ret |-> TRUE, stamp |-> FALSE]
    ELSE IF ~has_empty(stock_data[1])
         THEN [raised |-> TRUE, ret |-> FALSE, stamp |-> FALSE]  \* AttributeError
    ELSE [raised |-> FALSE, ret |-> TRUE, stamp |-> TRUE]

\* a fetch whose except branch is missing
uncaught(o) == o

\* except Exception: log, then return False
caught(o) == IF o.raised THEN [o EXCEPT !.raised = FALSE, !.ret = FALSE] ELSE o

\* the value run_news_etl returns: it has no return statement
run_news_etl_return == None

\* a value is truthy
truthy(v) == v # None /\ v # FALSE

\* the tracker after initialize(), on a store that holds stocks
InitTracker ==
    /\ db = [EmptyTables EXCEPT !.stocks = SeedStocks]
    /\ pending = EmptyTables
    /\ last = NoCall
    /\ run = NoRun
    /\ tracker = [NoTracker EXCEPT
                     !.pc = "start",
                     !.last_news_update = 0 - StartupNewsAge,
                     !.companies_to_track = load_companies_from_db(db),
                     !.db_manager_open = TRUE]

\* the while loop starts a cycle (after the sleep that ended the one before)
CycleStart ==
    /\ tracker.pc \in {"start", "sleeping"} /\ last.op = "none"
    /\ tracker.cycle_count < MaxCycles
    /\ tracker' = [tracker EXCEPT
                      !.cycle_count = @ + 1,
                      !.stocks_updated = 0,
                      !.k = 1,
                      !.now = IF tracker.pc = "sleeping" THEN @ + update_interval
                              ELSE @,
                      !.pc = "stocks"]
    /\ UNCHANGED <<storeVars, last, run>>

\* one turn of the for loop over companies_to_track
TrackStock ==
    /\ tracker.pc = "stocks" /\ last.op = "none"
    /\ tracker.k <= Len(tracker.companies_to_track)
    /\ LET symbol == tracker.companies_to_track[tracker.k]
       IN  IF should_update_stock(tracker, symbol)
           THEN \E history \in JobHistories : \E ticker \in Tickers :
                  \E failAt \in 0..(Len(history.rows) + 1) : \E fail \in BOOLEAN :
                    \E display \in JobHistories :
                      \E r \in {run_stock_etl(db, pending, symbol, history,
                                              ticker, failAt, fail)} :
                        \E o \in {caught(fetch_stock_try(
                                      r.ret, get_daily_stock_data(display)))} :
                          /\ db' = r.db
                          /\ pending' = r.pending
                          /\ last' = [StockEtlCall(symbol, history, r) EXCEPT
                                         !.op = "fetch_and_store_stock_data",
                                         !.ret = o.ret,
                                         !.failAt = failAt]
                          /\ tracker' = [tracker EXCEPT
                                !.stocks_updated = IF o.ret THEN @ + 1 ELSE @,
                                !.last_update_time =
                                    IF o.stamp THEN stamped(@, symbol, tracker.now)
                                    ELSE @,
                                !.now = @ + RateLimitSleep,
                                !.k = @ + 1,
                                !.db_manager_open = IF o.raised THEN FALSE ELSE @,
                                !.pc = IF o.raised THEN "crashed" ELSE @]
           ELSE /\ tracker' = [tracker EXCEPT !.k = @ + 1]
                /\ UNCHANGED <<storeVars, last>>
    /\ UNCHANGED run

\* if self.should_update_news(): fetch_and_store_news_data() calls run_news_etl
UpdateNews ==
    /\ tracker.pc = "stocks" /\ last.op = "none"
    /\ tracker.k > Len(tracker.companies_to_track)
    /\ IF should_update_news(tracker)
       THEN /\ tracker' = [tracker EXCEPT !.pc = "news"]
            /\ run' = [NoRun EXCEPT !.pc = "run_news_etl"]
       ELSE /\ tracker' = [tracker EXCEPT !.pc = "cycle_end"]
            /\ UNCHANGED run
    /\ UNCHANGED <<storeVars, last>>

\* run_news_etl has returned to fetch_and_store_news_data
NewsFetched ==
    /\ tracker.pc = "news" /\ run.pc = "tick" /\ last.op = "none"
    /\ LET success == run_news_etl_return
       IN  /\ tracker' = [tracker EXCEPT
                 !.last_news_update = IF truthy(success) THEN tracker.now ELSE @,
                 !.pc = "cycle_end"]
           /\ last' = [NoCall EXCEPT !.op = "fetch_and_store_news_data",
                                     !.ret = truthy(success)]
    /\ run' = [NoRun EXCEPT !.calls = run.calls]
    /\ UNCHANGED storeVars

\* the cycle is logged as completed and the loop sleeps update_interval
CycleEnd ==
    /\ tracker.pc = "cycle_end" /\ last.op = "none"
    /\ tracker' = [tracker EXCEPT !.completed = @ + 1, !.pc = "sleeping"]
    /\ run' = NoRun
    /\ UNCHANGED <<storeVars, last>>

\* the tracking loop is running
Tracking == tracker.pc \in {"stocks", "news", "cycle_end", "sleeping"}

\* KeyboardInterrupt: close self.db_manager, report cycle_count
Interrupt ==
    /\ Tracking /\ last.op = "none"
    /\ tracker' = [tracker EXCEPT !.pc = "stopped",
                                  !.db_manager_open = FALSE,
                                  !.reported = Some(tracker.cycle_count)]
    /\ UNCHANGED <<storeVars, last, run>>

NextTracker ==
    \/ CycleStart
    \/ TrackStock
    \/ UpdateNews
    \/ NewsEtlBatch
    \/ NewsFetched
    \/ CycleEnd
    \/ Interrupt
    \/ Return

SpecTracker == InitTracker /\ [][NextTracker]_vars

--------------------------------------------------------------------------
(* C17, C19, C20: the tracking loop *)

\* C17: when run_continuous_tracking has been interrupted, the session of
\* the ETL pipeline is closed and the reported count is the number of cycles
\* that ran to completion.
C17_OrderlyStop ==
    tracker.pc = "stopped" =>
        /\ ~tracker.session_open
        /\ tracker.reported = Some(tracker.completed)

\* C19: when run_stock_etl succeeds for a symbol in a cycle, the symbol's
\* last_update_time is set to the time of the update and stocks_updated is
\* incremented; and a symbol that has a last_update_time is updated only
\* when update_interval seconds have passed since it.
C19_UpdateThrottle ==
    [][last'.op = "fetch_and_store_stock_data" =>
          /\ last'.stock_success =>
                /\ [symbol |-> last'.symbol, time |-> tracker.now]
                        \in tracker'.last_update_time
                /\ tracker'.stocks_updated = tracker.stocks_updated + 1
          /\ \A e \in tracker.last_update_time :
                e.symbol = last'.symbol =>
                    tracker.now - e.time >= update_interval]_vars

\* C20: when run_news_etl has run in a cycle and every batch was loaded,
\* last_news_update is set to the time of the update; and news is refreshed
\* only when news_update_interval seconds have passed since last_news_update.
C20_NewsThrottle ==
    [][/\ last'.op = "fetch_and_store_news_data"
          /\ (\A i \in DOMAIN run.calls : run.calls[i])
          => tracker'.last_news_update = tracker.now
       /\ tracker.pc = "stocks" /\ tracker'.pc = "news"
          => tracker.now - tracker.last_news_update >= news_update_interval]_vars

--------------------------------------------------------------------------
(* C18: the two polling loops *)

\* the positions of start_scheduler
SchedulerPcs == Jobs \cup {"tick", "run_full_etl news"}

\* KeyboardInterrupt ends start_scheduler
SchedulerInterrupt ==
    /\ tracker.pc = "off" /\ run.pc \in SchedulerPcs /\ last.op = "none"
    /\ run' = [run EXCEPT !.pc = "stopped"]
    /\ UNCHANGED <<storeVars, last, tracker>>

\* either program: the scheduler of etl_pipeline.py or the tracker of main.py
InitLoops ==
    \E program \in {"etl_pipeline.py", "main.py"} :
        IF program = "main.py" THEN InitTracker ELSE InitScheduler

NextLoops ==
    \/ RunPending
    \/ RunDueJob
    \/ StockUpdateTurn
    \/ FullEtlTurn
    \/ NewsEtlBatch
    \/ SchedulerInterrupt
    \/ CycleStart
    \/ TrackStock
    \/ UpdateNews
    \/ NewsFetched
    \/ CycleEnd
    \/ Interrupt
    \/ Return

SpecLoops == InitLoops /\ [][NextLoops]_vars

\* a polling loop is running
LoopRunning ==
    \/ tracker.pc = "off" /\ run.pc \in SchedulerPcs
    \/ tracker.pc = "start"
    \/ Tracking

\* the operator has interrupted the loop
Interrupted ==
    \/ tracker.pc = "off" /\ run.pc = "stopped"
    \/ tracker.pc = "stopped"

\* C18: every step of a running polling loop, whatever failed in it (the
\* provider, a transform, the store, the scoring), leaves the loop running,
\* at the next turn of the job or at the next tick or cycle; the loop ends
\* only by the operator's interrupt.
C18_LoopsSurviveErrors ==
    [][LoopRunning => LoopRunning' \/ Interrupted']_vars

\* in the second cycle of the tracking loop a fetch failed after its
\* run_stock_etl had succeeded, and the loop is running; a load of the first
\* cycle's news had been rolled back
C18_Witness ==
    /\ Tracking /\ tracker.cycle_count = 2
    /\ last.op = "fetch_and_store_stock_data"
    /\ last.stock_success /\ ~last.ret
    /\ db.prices # {} /\ db.news = {} /\ db.sources = {}

--------------------------------------------------------------------------
(* C21: sentiment is written at insertion only *)

\* C21: no call changes the SentimentRecords of an article the committed
\* store already holds: a load_news_data call that meets a stored url creates
\* no SentimentRecord for its article and modifies or removes none, so an
\* article whose scoring failed at insertion never gains a record.
C21_SentimentOnlyAtInsertion ==
    [][/\ db.sents \subseteq db'.sents
       /\ \A n \in db.news : Sentiments(db', n) = Sentiments(db, n)]_vars

\* a committed load whose scoring succeeded met the url of a stored article
\* that has no SentimentRecord (its scoring had failed when it was inserted)
C21_Witness ==
    /\ last.op = "load_news_data" /\ last.ret
    /\ Failing(last.scorer) = {}
    /\ \E i \in DOMAIN last.news : \E n \in Articles(db, last.news[i].url) :
          Sentiments(db, n) = {}

--------------------------------------------------------------------------
(* C22: the order of the calls of run_full_etl *)

\* the first calls of the log are run_stock_etl for the first n tracked
\* symbols, in the order of the list
StockCallsInOrder(calls, n) ==
    /\ Len(calls) >= n
    /\ \A k \in 1..n : /\ calls[k].op = "run_stock_etl"
                       /\ calls[k].symbol = tracked_symbols[k]

\* C22: in run_full_etl a run_stock_etl call starts when no call is in
\* progress, and it is the call for the tracked symbol that follows those
\* already served, in the order of the list; run_news_etl starts when no call
\* is in progress and run_stock_etl has returned for every tracked symbol, the
\* last one included; a finished run has called run_stock_etl once per symbol.
C22_FullEtlOrder ==
    [][/\ last'.op = "run_stock_etl" =>
             /\ last.op = "none"
             /\ StockCallsInOrder(run.calls, Len(run.calls))
             /\ Len(run.calls) < Len(tracked_symbols)
             /\ run'.calls = Append(run.calls, Logged(last'))
             /\ last'.symbol = tracked_symbols[Len(run.calls) + 1]
       /\ last'.op = "run_news_etl" =>
             /\ last.op = "none"
             /\ StockCallsInOrder(run.calls, Len(tracked_symbols))
             /\ \A k \in DOMAIN run.calls :
                   run.calls[k].op = "run_stock_etl" => k <= Len(tracked_symbols)
       /\ last'.op = "run_full_etl" =>
             Cardinality({k \in DOMAIN run.calls :
                             run.calls[k].op = "run_stock_etl"})
                 = Len(tracked_symbols)]_vars

\* run_news_etl has started after run_stock_etl returned failure for the last
\* tracked symbol and success for the first
C22_Witness ==
    /\ last.op = "run_news_etl" /\ run.pc = "news"
    /\ run.calls[1].symbol = tracked_symbols[1] /\ run.calls[1].ret
    /\ run.calls[Len(tracked_symbols)].symbol
            = tracked_symbols[Len(tracked_symbols)]
    /\ ~run.calls[Len(tracked_symbols)].ret

--------------------------------------------------------------------------
(* C23: the jobs of the scheduler *)

\* the positions at which a job is executing
JobRunning(r) == r.pc \in Jobs \cup {"run_full_etl news"}

\* the job executing at a position
JobAt(r) == IF r.pc = "run_full_etl news" THEN "run_full_etl" ELSE r.pc

\* C23: in start_scheduler a step of an executing job leaves that job
\* executing, at the same or a later turn, or returns from it, and leaves the
\* jobs that wait untouched; a job starts only when no job is executing and
\* no call is in progress; and run_pending() looks again for due jobs only
\* when every job it had found due has been called and has returned.
C23_JobsNeverOverlap ==
    [][/\ JobRunning(run) /\ JobRunning(run') =>
             /\ JobAt(run') = JobAt(run)
             /\ run'.due = run.due
             /\ run'.pc = run.pc => run'.i >= run.i
       /\ JobRunning(run) /\ ~JobRunning(run') =>
             run'.pc \in {"tick", "stopped"} /\ run'.due = run.due
       /\ ~JobRunning(run) /\ JobRunning(run') =>
             /\ run.pc = "tick" /\ last.op = "none"
             /\ run'.i = first_turn(run'.pc)
             /\ run.due # {} => run'.pc \in run.due
                                 /\ run'.due = run.due \ {run'.pc}]_vars

\* a tick found several jobs due: the news job is at its second batch, after
\* a first batch that the store rejected, and the full ETL still waits
C23_Witness ==
    /\ run.pc = "run_news_etl" /\ run.i = 1
    /\ run.due = {"run_full_etl"}
    /\ last.op = "run_news_etl" /\ last.failAt # 0 /\ ~last.ret

--------------------------------------------------------------------------
(* C24: the extraction boundary *)

\* extract_stock_data(symbol): ret tells that a frame was returned
ExtractStockData ==
    /\ Idle
    /\ \E symbol \in Symbols : \E history \in Histories :
         \E df \in {extract_stock_data(symbol, history)} :
            last' = [NoCall EXCEPT
                        !.op = "extract_stock_data", !.ret = (df # None),
                        !.symbol = symbol, !.input = history,
                        !.dates = IF df = None THEN {}
                                  ELSE {df[1][k].date : k \in DOMAIN df[1]}]
    /\ UNCHANGED <<storeVars, run, tracker>>

\* extract_company_info(symbol): ret tells that an overview was returned
ExtractCompanyInfo ==
    /\ Idle
    /\ \E symbol \in Symbols : \E ticker \in Tickers :
          last' = [NoCall EXCEPT
                      !.op = "extract_company_info",
                      !.ret = (extract_company_info(ticker) # None),
                      !.symbol = symbol, !.input = ticker]
    /\ UNCHANGED <<storeVars, run, tracker>>

\* extract_news_data(query): ret tells that a frame was returned
ExtractNewsData ==
    /\ Idle
    /\ \E provider \in NewsProviders :
          last' = [NoCall EXCEPT
                      !.op = "extract_news_data",
                      !.ret = (extract_news_data(provider) # None),
                      !.input = provider]
    /\ UNCHANGED <<storeVars, run, tracker>>

\* a row of a frame handed to transform_stock_data; volume is None when
\* int() cannot coerce it
FrameRow(d, v, vol) ==
    [date |-> d, open |-> v, high |-> v + 2, low |-> v - 1, close |-> v + 1,
     volume |-> vol]

\* the frames: well-formed rows and a row that cannot be coerced
Frames ==
    SeqsUpTo({FrameRow(1, 10, Some(100)), FrameRow(2, 20, Some(300)),
              FrameRow(3, 10, None)}, MaxRows) \ {<<>>}

\* run_stock_etl(symbol) when extract_stock_data returns a frame df of
\* frames and Ticker.info does what one of tickers does: bars keeps what
\* transform_stock_data returned
RunStockEtlOn(frames, tickers) ==
    /\ Idle
    /\ \E symbol \in Symbols : \E df \in frames : \E ticker \in tickers :
         \E failAt \in 0..(Len(df) + 1) : \E fail \in BOOLEAN :
            \E r \in {run_stock_etl_company(
                          db, pending, symbol, ticker, fail,
                          price_step_of(db, session_begin, symbol, Some(df),
                                        failAt))} :
                /\ db' = r.db
                /\ pending' = r.pending
                /\ last' = [NoCall EXCEPT
                      !.op = "run_stock_etl", !.ret = r.ret,
                      !.symbol = symbol, !.input = df,
                      !.bars = Range(transform_stock_data(df, symbol)),
                      !.stock_success = r.stock_success,
                      !.company_success = r.company_success,
                      !.stages = r.stages, !.failAt = failAt]
                /\ UNCHANGED <<run, tracker>>

RunStockEtlOnFrame == RunStockEtlOn(Frames, Tickers)

\* the stages before the load, called on their own, and run_stock_etl on the
\* frames they may be handed
NextStages ==
    \/ ExtractStockData
    \/ ExtractCompanyInfo
    \/ ExtractNewsData
    \/ RunStockEtlOnFrame
    \/ Return

SpecStages == Init /\ [][NextStages]_vars

\* the price provider raised, returned no row, or returned a row whose
\* volume is not a number
PriceProviderFailed(history) ==
    \/ history.raises
    \/ history.rows = <<>>
    \/ \E i \in DOMAIN history.rows : history.rows[i].Volume = None

\* the company provider raised or returned nothing
CompanyProviderFailed(ticker) == ticker.raises \/ ticker.empty

\* a field of the company payload is missing or null
CompanyFieldMissing(ticker) ==
    \E f \in {"longName", "sector", "exchange", "marketCap"} :
        ticker[f] \in {Absent, None}

\* the news provider raised, returned nothing, or returned an empty frame
NewsProviderFailed(provider) ==
    \/ provider.raises
    \/ provider.frame = None
    \/ provider.frame[1] = <<>>

\* a field of a row of the news payload is null
NewsFieldMissing(provider) ==
    /\ provider.frame # None
    /\ \E i \in DOMAIN provider.frame[1] :
          \E f \in {"url", "title", "content", "source_name"} :
              provider.frame[1][i][f] = None

\* an extraction leaves the store and the session as they were
NoStoreWrite == db' = db /\ pending' = pending

--------------------------------------------------------------------------
(* C25: a malformed bar *)

\* a row of the frame cannot be coerced
Malformed(df) == \E i \in DOMAIN df : df[i].volume = None

\* the identities of the Stock rows
StockIds(d) == {st.stock_id : st \in d.stocks}

\* C25: when a bar of the frame handed to transform_stock_data cannot be
\* coerced, the transform returns the empty list, and run_stock_etl runs no
\* price load, leaves the PriceRecords as they were, creates no Stock, and
\* returns false.
C25_MalformedBarFailsBatch ==
    [][last'.op = "run_stock_etl" /\ Malformed(last'.input) =>
          /\ last'.bars = {}
          /\ "transform_stock_data" \in Range(last'.stages)
          /\ "load_stock_data" \notin Range(last'.stages)
          /\ db'.prices = db.prices
          /\ StockIds(db') = StockIds(db)
          /\ ~last'.ret]_vars

\* the frame held a well-formed bar before the malformed one; the symbol has
\* a Stock, which the company half of the same call enriched
C25_Witness ==
    /\ last.op = "run_stock_etl" /\ ~last.ret
    /\ Len(last.input) = 2
    /\ ~Malformed(<<last.input[1]>>) /\ Malformed(<<last.input[2]>>)
    /\ last.company_success
    /\ \E st \in db.stocks : st.symbol = last.symbol
                              /\ st.company_name # st.symbol

--------------------------------------------------------------------------
(* C26: the market-cap parse *)

\* the Stock rows of a symbol
StocksOf(d, symbol) == {st \in d.stocks : st.symbol = symbol}

\* C26: a load_company_data call for a symbol that has a Stock, whose
\* payload has a name, a sector and an exchange and during which the store
\* raises nothing, returns true and commits, whatever the market-cap text:
\* the Stock has marketCap null when the text is "None" or is no integer,
\* the integer otherwise, and the name, sector and exchange of the payload.
C26_MarketCapParse ==
    [][/\ last'.op = "load_company_data" /\ last'.failAt = 0
       /\ HasStock(db, last'.symbol) /\ ~info_raises(last'.input)
       => /\ last'.ret
          /\ pending' = EmptyTables
          /\ StocksOf(db', last'.symbol) # {}
          /\ \A st \in StocksOf(db', last'.symbol) :
                LET cap == last'.input.MarketCapitalization
                IN  /\ cap = NoneText \/ ~IsIntText(cap) => st.market_cap = None
                    /\ cap # NoneText /\ IsIntText(cap) =>
                           st.market_cap = Some(IntOfText(cap))
                    /\ st.company_name = Trunc(last'.input.Name[1], NameMax)
                    /\ st.sector = Some(Trunc(last'.input.Sector[1], SectorMax))
                    /\ st.exchange
                           = Some(Trunc(last'.input.Exchange[1], ExchangeMax))]_vars

\* a load whose market-cap text is no integer and is not "None" returned
\* true: the Stock has the name of the payload and no market cap
C26_Witness ==
    /\ last.op = "load_company_data" /\ last.ret
    /\ last.input.MarketCapitalization # NoneText
    /\ ~IsIntText(last.input.MarketCapitalization)
    /\ \E st \in StocksOf(db, last.symbol) :
          /\ st.market_cap = None
          /\ st.company_name = last.input.Name[1]
          /\ st.company_name # st.symbol

--------------------------------------------------------------------------
(* C27: lazy stock creation *)

\* C27: a committed load_stock_data call leaves exactly one Stock for every
\* symbol of its batch that had none, however many bars the batch holds for
\* it: a new row whose companyName is the symbol and isActive is true; a
\* load_stock_data call, committed or not, leaves the Stock rows of a symbol
\* that has one as they were; and a call creates Stocks for symbols of its
\* batch only.
C27_LazyStockCreation ==
    [][last'.op = "load_stock_data" =>
          /\ \A rec \in last'.bars :
                LET before == StocksOf(db, rec.symbol)
                    after == StocksOf(db', rec.symbol)
                IN  /\ before # {} => after = before
                    /\ before = {} /\ last'.ret =>
                          /\ Cardinality(after) = 1
                          /\ \A st \in after : /\ st.company_name = rec.symbol
                                                /\ st.is_active
                                                /\ st.stock_id \notin StockIds(db)
          /\ \A st \in db'.stocks \ db.stocks :
                \E rec \in last'.bars : rec.symbol = st.symbol]_vars

\* a first committed load whose batch held two bars of one symbol: the store
\* holds the two prices and one Stock
C27_Witness ==
    /\ last.op = "load_stock_data" /\ last.ret
    /\ \E r1, r2 \in last.bars :
          /\ r1.symbol = r2.symbol /\ r1.date # r2.date
          /\ Cardinality(SymbolPrices(db, r1.symbol)) = 2
          /\ Cardinality(db.prices) = 2
          /\ Cardinality(db.stocks) = 1
          /\ \A st \in db.stocks : st.company_name = st.symbol

--------------------------------------------------------------------------
(* C28: the light stock-update job *)

\* a history of n daily rows, in the order of their dates
DailyRows(n) == [d \in 1..n |-> YfRow(d, 10, Some(100))]

\* what Ticker.history does in a call of the job: it raises, or it returns
\* fewer rows than run_stock_updates keeps, as many, or one more
WeekHistories ==
    {[raises |-> TRUE, rows |-> <<>>]}
        \cup {[raises |-> FALSE, rows |-> DailyRows(n)] :
                  n \in {1, 2, HeadRows, HeadRows + 1}}

\* the scheduler calls run_stock_updates
InitStockUpdates ==
    /\ db = EmptyTables
    /\ pending = EmptyTables
    /\ last = NoCall
    /\ run = [NoRun EXCEPT !.pc = "run_stock_updates", !.i = 1]
    /\ tracker = NoTracker

\* one call of run_stock_updates
NextStockUpdates == StockUpdateTurnOn(WeekHistories) \/ Return

SpecStockUpdates == InitStockUpdates /\ [][NextStockUpdates]_vars

\* C28: a turn of run_stock_updates hands at most 5 bars to the load, and
\* when the extraction yields more than 5 bars, those it hands on are the 5
\* with the most recent dates: every bar left out is older than every bar
\* handed on.
C28_LightUpdateLatestBars ==
    [][last'.op = "run_stock_updates" =>
          /\ Cardinality(last'.bars) <= HeadRows
          /\ Cardinality(last'.dates) > HeadRows =>
                /\ Cardinality(last'.bars) = HeadRows
                /\ \A rec \in last'.bars :
                      \A d \in last'.dates \ {b.date : b \in last'.bars} :
                          d < rec.date]_vars

--------------------------------------------------------------------------
(* C29: referential integrity *)

\* C29: in every state of the committed store, every PriceRecord refers to a
\* stored Stock, every NewsArticle to a stored NewsSource, every
\* SentimentRecord to a stored NewsArticle, and every StockNewsRelation to a
\* stored NewsArticle and a stored Stock.
C29_ReferentialIntegrity ==
    /\ \A p \in db.prices : \E st \in db.stocks : st.stock_id = p.stock_id
    /\ \A n \in db.news : \E src \in db.sources : src.source_id = n.source_id
    /\ \A sn \in db.sents : \E n \in db.news : n.news_id = sn.news_id
    /\ \A r \in db.rels :
          /\ \E n \in db.news : n.news_id = r.news_id
          /\ \E st \in db.stocks : st.stock_id = r.stock_id

\* a news batch was rolled back after its first record had been inserted
\* and scored, on a store that holds Stocks and PriceRecords: the store holds
\* no article and no SentimentRecord
C29_Witness ==
    /\ last.op = "load_news_data" /\ ~last.ret
    /\ last.failAt >= 2 /\ Failing(last.scorer) = {}
    /\ last.news[1].url # NoUrl
    /\ db.news = {} /\ db.sents = {} /\ db.sources = {}
    /\ db.stocks # {} /\ db.prices # {}

--------------------------------------------------------------------------
(* C30: price loads and the Stock row *)

\* C30: a load_stock_data call leaves every committed Stock row as it was,
\* with its companyName, sector, exchange, marketCap and isActive: what
\* load_company_data has written is not changed by a later price load, and
\* the name is not reverted to the symbol.
C30_PriceLoadKeepsStock ==
    [][last'.op = "load_stock_data" =>
          \A st \in db.stocks :
              \E kept \in db'.stocks :
                  /\ kept.stock_id = st.stock_id /\ kept.symbol = st.symbol
                  /\ kept.company_name = st.company_name
                  /\ kept.sector = st.sector
                  /\ kept.exchange = st.exchange
                  /\ kept.market_cap = st.market_cap
                  /\ kept.is_active = st.is_active]_vars

\* a committed price load carried a bar for a symbol whose Stock has the
\* name and the market cap load_company_data wrote
C30_Witness ==
    /\ last.op = "load_stock_data" /\ last.ret
    /\ \E rec \in last.bars : \E st \in StocksOf(db, rec.symbol) :
          /\ st.company_name # st.symbol
          /\ st.sector # None
          /\ st.market_cap # None
          /\ PriceRows(db, rec.symbol, rec.date) # {}

--------------------------------------------------------------------------
(* C31: run_stock_etl and load_news_data on data the store already holds *)

\* frames whose rows repeat a date with other values, and a row that
\* transform_stock_data cannot coerce
ReloadFrames ==
    SeqsUpTo({FrameRow(1, 10, Some(100)), FrameRow(1, 20, Some(100)),
              FrameRow(3, 10, None)}, MaxRows) \ {<<>>}

\* a provider of company information that raises: only the price half acts
ReloadTickers == {t \in Tickers : t.raises}

\* an article with a url and a record without url
ReloadNews == {r \in NewsRecords : r.title = <<"a", "b">>}

NextReloads ==
    \/ RunStockEtlOn(ReloadFrames, ReloadTickers)
    \/ LoadNewsData(ReloadNews)
    \/ Return

SpecReloads == Init /\ [][NextReloads]_vars

\* C31: run_stock_etl(symbol) returns true whenever the extracted frame has
\* a row, the transform returns a non-empty list and the store raises nothing
\* during the load, whether or not the call stored a PriceRecord; and
\* load_news_data returns true whenever the store raises nothing, whether or
\* not the call stored an article.
C31_SuccessIsNotNewData ==
    [][/\ ( /\ last'.op = "run_stock_etl"
            /\ last'.input # <<>> /\ last'.bars # {}
            /\ last'.failAt = 0 ) => last'.ret
       /\ ( /\ last'.op = "load_news_data"
            /\ last'.failAt = 0 ) => last'.ret]_vars

\* run_stock_etl returned true and every bar it handed to the load has a
\* stored PriceRecord with other values: the call stored no PriceRecord
C31_Witness ==
    /\ last.op = "run_stock_etl" /\ last.ret
    /\ last.bars # {}
    /\ \A rec \in last.bars :
          \E p \in PriceRows(db, rec.symbol, rec.date) :
              PriceValues(p) # PriceValues(rec)

\* load_news_data returned true for a batch of which every record was
\* skipped: it has no url, or its url is stored with the sentiment of a model
\* that raised in this call
C31_AllNewsSkipped ==
    /\ last.op = "load_news_data" /\ last.ret
    /\ last.news # <<>>
    /\ \E m \in Models : last.scorer[m] = "raise"
    /\ \A i \in DOMAIN last.news :
          \/ last.news[i].url = NoUrl
          \/ \E n \in db.news :
                /\ n.url = last.news[i].url
                /\ \A m \in Models :
                      \E sn \in Sentiments(db, n) : sn.analysis_model = m

--------------------------------------------------------------------------
(* C32: the NewsSource of a record that load_news_data skips *)

\* one url carried by two sources, and a record without url from a third
SourceNews ==
    {NewsRecord("u1", <<"a", "b">>, <<>>, "Reuters"),
     NewsRecord("u1", <<"a", "b">>, <<>>, "Wire"),
     NewsRecord(NoUrl, <<"a", "b">>, <<>>, "Blog")}

NextSources == LoadNewsData(SourceNews) \/ Return

SpecSources == Init /\ [][NextSources]_vars

\* the record has no url, or its url is the url of an article of d
SkippedIn(d, record) ==
    record.url = NoUrl \/ \E n \in d.news : n.url = record.url

\* the NewsSource rows of d named name
SourcesNamed(d, name) == {src \in d.sources : src.source_name = name}

\* C32: after a load_news_data call that committed, a record of the batch
\* that has no url or whose url was stored before the call, and whose
\* sourceName had no NewsSource before the call, has exactly one NewsSource,
\* with credibilityScore 0.50 and isActive true; and when every record of the
\* batch is such a skipped record the call changes nothing else: the other
\* tables and the NewsSources stored before are as they were, and every new
\* NewsSource carries the sourceName of a record of the batch.
C32_SkippedRecordLeavesSource ==
    [][last'.op = "load_news_data" /\ last'.ret =>
          /\ \A i \in DOMAIN last'.news :
                LET record == last'.news[i]
                IN  /\ SkippedIn(db, record)
                    /\ SourcesNamed(db, record.source_name) = {}
                    => /\ Cardinality(SourcesNamed(db', record.source_name)) = 1
                       /\ \A src \in SourcesNamed(db', record.source_name) :
                             /\ src.credibility_score = DefaultCredibility
                             /\ src.is_active
          /\ (\A i \in DOMAIN last'.news : SkippedIn(db, last'.news[i])) =>
                /\ \A t \in DOMAIN db \ {"sources"} : db'[t] = db[t]
                /\ db.sources \subseteq db'.sources
                /\ \A src \in db'.sources \ db.sources :
                      \E i \in DOMAIN last'.news :
                          src.source_name = last'.news[i].source_name]_vars

\* a committed batch carried a stored url under a sourceName of which the
\* store holds the NewsSource and no article, and a record without url
\* whose NewsSource is stored as well
C32_Witness ==
    /\ last.op = "load_news_data" /\ last.ret
    /\ \E i, j \in DOMAIN last.news :
          /\ last.news[i].url # NoUrl
          /\ last.news[j].url = NoUrl
          /\ \E n \in db.news : n.url = last.news[i].url
          /\ \E src \in SourcesNamed(db, last.news[i].source_name) :
                /\ src.credibility_score = DefaultCredibility /\ src.is_active
                /\ ~\E n \in db.news : n.source_id = src.source_id
          /\ SourcesNamed(db, last.news[j].source_name) # {}

--------------------------------------------------------------------------
(* C33: the start of the scheduler *)

\* how far the run_full_etl that start_scheduler calls has come: symbol turn
\* i, then news batch i, then the first tick of the while loop
StartupStep(r) ==
    IF r.pc = "run_full_etl" THEN r.i
    ELSE IF r.pc = "run_full_etl news" THEN Len(tracked_symbols) + 1 + r.i
    ELSE 2 * Len(tracked_symbols) + 2

\* a job that run_pending() has called is executing
ScheduledJobRunning(r) == JobRunning(r) /\ ~r.startup

\* C33: start_scheduler has registered the three jobs when its run_full_etl
\* begins and they stay registered; until the first run_pending() the only
\* thing that executes is that run_full_etl, one turn per tracked symbol in
\* order and then every news batch; the first tick comes when the last news
\* batch has returned; and a scheduled job starts only from a tick, so none
\* executes before the initial run_full_etl has returned.
C33_StartupOrder ==
    /\ [](/\ run.jobs = Jobs
          /\ run.startup =>
                /\ run.pc \in {"run_full_etl", "run_full_etl news", "tick"}
                /\ run.due = {}
                /\ run.pc = "tick" =>
                      Len(run.calls) = Len(tracked_symbols) + 1)
    /\ [][/\ run.startup /\ run'.startup =>
               StartupStep(run') \in {StartupStep(run), StartupStep(run) + 1}
          /\ run.startup /\ ~run'.startup =>
               /\ run.pc = "tick" /\ last.op = "none"
               /\ run'.pc \in Jobs
          /\ (~run.startup => ~run'.startup)
          /\ ~ScheduledJobRunning(run) /\ ScheduledJobRunning(run') =>
               run.pc = "tick"]_vars

\* the first tick: the initial run_full_etl has returned after it stored
\* prices and articles, and run_pending() has not been called yet
C33_Witness ==
    /\ run.startup /\ run.pc = "tick" /\ last.op = "none"
    /\ run.jobs = Jobs
    /\ db.prices # {} /\ db.news # {}

\* a job that run_pending() called is executing on what the initial
\* run_full_etl stored
C33_ScheduledJobAfterStartup ==
    /\ ScheduledJobRunning(run) /\ run.pc = "run_stock_updates"
    /\ db.prices # {} /\ db.news # {}

====
